---- MODULE Spec2Model ----
(***************************************************************************)
(* Inventory, transfers, customer debt and returns of the kassa back       *)
(* office (backend/app): the request handlers of routes_sales,             *)
(* routes_debts, routes_movements and routes_returns over the tables of    *)
(* models/entities.py, and services/inventory.adjust_stock.                *)
(*                                                                         *)
(* Money is counted in whole currency units (every amount the handlers     *)
(* quantize to 0.01 is an integer here), quantities are integers as the    *)
(* Integer columns and the int payload fields make them.                   *)
(***************************************************************************)
EXTENDS Integers, Sequences, FiniteSets, TLC

VARIABLES db, last, tx

vars == <<db, last, tx>>

(***************************************************************************)
(* Bounds of the model.                                                    *)
(***************************************************************************)
MaxSales == 2
MaxMovements == 1
MaxPayments == 1
\* stock quantities explored by the adjust_stock requests stay within -MaxStock..MaxStock
MaxStock == 3
\* the Return rows of a sale that a report breaks down
MaxReturns == 3
\* the stock moves of the warehouse service
MaxMoves == 2
\* the orders, order payments and debt payments of the orders service
MaxOrders == 1
MaxOrderPayments == 1
MaxDebtPayments == 1

(***************************************************************************)
(* Identifiers.  Branch 1 is the sale branch settings.sale_branch_name     *)
(* resolves to; 0 stands for None/NULL in an id column.                    *)
(***************************************************************************)
StoreBranch == 1
Branches == {1, 2}
Products == {1, 2}
ProductIds == {1, 2, 9}
Clients == {1, 2}
ClientIds == {0, 1, 2, 9}
Null == "null"

Users ==
  { [id |-> "admin", role |-> "admin", branch_id |-> 0],
    [id |-> "emp1", role |-> "employee", branch_id |-> 1],
    [id |-> "emp2", role |-> "employee", branch_id |-> 2],
    [id |-> "emp0", role |-> "employee", branch_id |-> 0] }

Min(a, b) == IF a <= b THEN a ELSE b
Max(a, b) == IF a >= b THEN a ELSE b

(***************************************************************************)
(* The unit of work.  A handler works on its session's view of the         *)
(* database; db.commit() makes that view the committed state, and          *)
(* db.rollback() leaves the committed state as it was.                     *)
(***************************************************************************)
commit(committed, session) == session

rollback(committed, session) == committed

Reply(code, d) == [status |-> code, db |-> d]

(***************************************************************************)
(* services/inventory.py                                                   *)
(***************************************************************************)
HasStock(d, branch_id, product_id) == <<branch_id, product_id>> \in DOMAIN d.stock

\* stock.quantity of the row, or 0 where the callers write `stock.quantity if stock else 0`
StockQty(d, branch_id, product_id) ==
  IF HasStock(d, branch_id, product_id) THEN d.stock[<<branch_id, product_id>>] ELSE 0

adjusted_quantity_unclamped(quantity, delta, allow_negative) == quantity + delta

\* lines 23-25: the new quantity of the row
adjusted_quantity(quantity, delta, allow_negative) ==
  LET q == quantity + delta
  IN  IF ~allow_negative /\ q < 0 THEN 0 ELSE q

\* lines 16-27: the row is created with 0 when missing, then adjusted
adjust_stock(d, branch_id, product_id, delta, allow_negative) ==
  LET key == <<branch_id, product_id>>
      old == StockQty(d, branch_id, product_id)
      new == adjusted_quantity(old, delta, allow_negative)
  IN  [d EXCEPT !.stock =
         [k \in (DOMAIN d.stock) \cup {key} |-> IF k = key THEN new ELSE d.stock[k]]]

(***************************************************************************)
(* routes_sales.py: create_sale                                            *)
(***************************************************************************)
NewSale(branch_id, payload, user) ==
  [branch_id |-> branch_id, seller_id |-> user.id, client_id |-> payload.client_id,
   paid_cash |-> payload.paid_cash, paid_card |-> payload.paid_card,
   paid_debt |-> payload.paid_debt, total_amount |-> 0, items |-> <<>>]

\* the availability check of lines 224-232 left out
line_available_unchecked(d, branch_id, item) == TRUE

\* lines 224-232: a line asks for no more than the branch has in stock
line_available(d, branch_id, item) ==
  ~(StockQty(d, branch_id, item.product_id) < item.quantity)

\* lines 221-251: the loop over payload.items; r = [status, db, total]
RECURSIVE sale_items_loop(_, _, _, _, _)
sale_items_loop(d, sale_id, branch_id, items, total) ==
  IF items = <<>> THEN [status |-> 0, db |-> d, total |-> total]
  ELSE
    LET item == Head(items)
    IN  IF item.product_id \notin Products
          THEN [status |-> 404, db |-> d, total |-> total]
        ELSE IF ~line_available(d, branch_id, item)
          THEN [status |-> 400, db |-> d, total |-> total]
        ELSE
          LET line_total == (item.price - item.discount) * item.quantity
              d1 == adjust_stock(d, branch_id, item.product_id, 0 - item.quantity, FALSE)
              d2 == [d1 EXCEPT !.product[item.product_id] = Max(@ - item.quantity, 0)]
              sale_item == [product_id |-> item.product_id, quantity |-> item.quantity,
                            price |-> item.price, discount |-> item.discount,
                            total |-> line_total]
              d3 == [d2 EXCEPT !.sales[sale_id].items = Append(@, sale_item)]
          IN  sale_items_loop(d3, sale_id, branch_id, Tail(items), total + line_total)

\* lines 285-291: _assert_sale_access, called by get_sale_detail after the commit
sale_access_status(sale, user) ==
  IF user.role = "employee" /\ user.branch_id = 0 THEN 400
  ELSE IF user.role = "employee" /\ sale.branch_id # user.branch_id THEN 403
  ELSE 0

\* the comparison of lines 258-261 left out
payment_unchecked(paid_total, total) == TRUE

\* lines 258-261: the three payments add up to the total of the lines
payment_matches(paid_total, total) == paid_total = total

\* the Debt row of lines 269-270 without the rise of the client's total_debt
sale_debt_unbooked(d, sale_id, payload) ==
  [d EXCEPT !.debts = Append(@, [client_id |-> payload.client_id, sale_id |-> sale_id,
                                 amount |-> payload.paid_debt, paid |-> 0])]

\* lines 268-270: the credit part of a sale becomes a debt of the client
sale_debt(d, sale_id, payload) ==
  [d EXCEPT !.clients[payload.client_id] = @ + payload.paid_debt,
            !.debts = Append(@, [client_id |-> payload.client_id,
                                 sale_id |-> sale_id,
                                 amount |-> payload.paid_debt,
                                 paid |-> 0])]

create_sale(d, payload, user) ==
  LET branch_id == StoreBranch
  IN
  IF payload.paid_debt > 0 /\ payload.client_id = 0 THEN Reply(400, d)
  ELSE IF payload.items = <<>> THEN Reply(400, d)
  ELSE
    LET sale_id == Len(d.sales) + 1
        d1 == [d EXCEPT !.sales = Append(@, NewSale(branch_id, payload, user))]
        r == sale_items_loop(d1, sale_id, branch_id, payload.items, 0)
        paid_total == payload.paid_cash + payload.paid_card + payload.paid_debt
        d2 == [r.db EXCEPT !.sales[sale_id].total_amount = r.total]
        d3 == sale_debt(d2, sale_id, payload)
    IN  IF payload.client_id # 0 /\ payload.client_id \notin Clients
          THEN Reply(400, rollback(d, d1))   \* line 219: the flush violates sales.client_id's foreign key
        ELSE IF r.status # 0 THEN Reply(r.status, rollback(d, r.db))
        ELSE IF ~payment_matches(paid_total, r.total) THEN Reply(400, rollback(d, r.db))
        ELSE IF payload.paid_debt > 0 /\ payload.client_id # 0
          THEN IF payload.client_id \notin Clients
                 THEN Reply(404, rollback(d, d2))
               ELSE
                 LET access == sale_access_status(d3.sales[sale_id], user)
                 IN  Reply(IF access # 0 THEN access ELSE 201, commit(d, d3))
        ELSE
          LET access == sale_access_status(d2.sales[sale_id], user)
          IN  Reply(IF access # 0 THEN access ELSE 201, commit(d, d2))

(***************************************************************************)
(* routes_debts.py: pay_off_debt                                           *)
(***************************************************************************)
\* lines 57-66: the client's debts with amount > paid, by created_at (the
\* order of insertion, which is the order of the ids)
RECURSIVE open_debts_from(_, _, _)
open_debts_from(debts, client_id, i) ==
  IF i > Len(debts) THEN <<>>
  ELSE IF debts[i].client_id = client_id /\ debts[i].amount > debts[i].paid
    THEN <<i>> \o open_debts_from(debts, client_id, i + 1)
  ELSE open_debts_from(debts, client_id, i + 1)

\* the open debts of a client with the newest first
open_debts_newest_first(debts, client_id) ==
  LET oldest_first == open_debts_from(debts, client_id, 1)
  IN  [i \in 1..Len(oldest_first) |-> oldest_first[Len(oldest_first) + 1 - i]]

\* lines 58-66 (and routes_returns.py 157-165): the open debts of a client by
\* created_at, which is the order of the ids
open_debts(debts, client_id) == open_debts_from(debts, client_id, 1)

\* the walk without the min of line 72: the first open debt takes all
pay_allocate_uncapped(debts, targeted_debts, remaining) ==
  IF targeted_debts = <<>> THEN debts
  ELSE [debts EXCEPT ![Head(targeted_debts)].paid = @ + remaining]

\* lines 68-76: the allocation walk over targeted_debts
RECURSIVE pay_allocate(_, _, _)
pay_allocate(debts, targeted_debts, remaining) ==
  IF targeted_debts = <<>> THEN debts
  ELSE
    LET id == Head(targeted_debts)
        debt_remaining == debts[id].amount - debts[id].paid
    IN  IF debt_remaining <= 0 THEN pay_allocate(debts, Tail(targeted_debts), remaining)
        ELSE
          LET portion == Min(remaining, debt_remaining)
              debts2 == [debts EXCEPT ![id].paid = @ + portion]
          IN  IF remaining - portion <= 0 THEN debts2
              ELSE pay_allocate(debts2, Tail(targeted_debts), remaining - portion)

\* the cap of line 47 left out
applied_amount_uncapped(amount, current_debt) == amount

\* lines 45-47
applied_amount(amount, current_debt) ==
  IF current_debt > 0 THEN Min(amount, current_debt) ELSE amount

\* the targeted debt followed by the other open debts of the client
targeted_debts_spilling(d, payload) ==
  IF payload.debt_id # 0
    THEN IF payload.debt_id \notin DOMAIN d.debts
            \/ d.debts[payload.debt_id].client_id # payload.client_id
           THEN <<0>>
         ELSE <<payload.debt_id>> \o open_debts(d.debts, payload.client_id)
  ELSE open_debts(d.debts, payload.client_id)

\* lines 51-66: the debts the payment is walked over, <<0>> for "debt not found"
targeted_debts(d, payload) ==
  IF payload.debt_id # 0
    THEN IF payload.debt_id \notin DOMAIN d.debts
            \/ d.debts[payload.debt_id].client_id # payload.client_id
           THEN <<0>>
         ELSE <<payload.debt_id>>
  ELSE open_debts(d.debts, payload.client_id)

pay_off_debt(d, payload, user) ==
  IF payload.amount <= 0 THEN Reply(422, d)
  ELSE IF payload.client_id \notin Clients THEN Reply(404, d)
  ELSE IF user.role # "admin" /\ user.branch_id = 0 THEN Reply(403, d)
  ELSE
    LET current_debt == d.clients[payload.client_id]
        applied == applied_amount(payload.amount, current_debt)
        targeted == targeted_debts(d, payload)
    IN  IF targeted = <<0>> THEN Reply(404, rollback(d, d))
        ELSE
          LET d1 == [d EXCEPT !.debts = pay_allocate(@, targeted, applied),
                              !.clients[payload.client_id] = Max(current_debt - applied, 0),
                              !.payments = Append(@, [client_id |-> payload.client_id,
                                                      debt_id |-> payload.debt_id,
                                                      amount |-> applied,
                                                      payment_type |-> payload.payment_type])]
          IN  Reply(201, commit(d, d1))

(***************************************************************************)
(* routes_movements.py                                                     *)
(***************************************************************************)
\* lines 36-45: _ensure_movement_access; 0 when the caller may see the movement
movement_access_status(movement, user) ==
  IF user.role = "admin" THEN 0
  ELSE IF user.branch_id = 0 THEN 403
  ELSE IF movement.from_branch_id # user.branch_id /\ movement.to_branch_id # user.branch_id
    THEN 403
  ELSE 0

create_check_items_skipped(d, from_branch_id, items) == 0

\* lines 143-158: the read-only stock check of every line; 0 when all pass
RECURSIVE create_check_items(_, _, _)
create_check_items(d, from_branch_id, items) ==
  IF items = <<>> THEN 0
  ELSE
    LET item == Head(items)
    IN  IF item.product_id \notin Products THEN 404
        ELSE IF StockQty(d, from_branch_id, item.product_id) < item.quantity THEN 400
        ELSE create_check_items(d, from_branch_id, Tail(items))

create_movement(d, payload, user) ==
  IF \E i \in DOMAIN payload.items : payload.items[i].quantity <= 0 THEN Reply(422, d)
  ELSE IF payload.from_branch_id = payload.to_branch_id THEN Reply(400, d)
  ELSE IF payload.items = <<>> THEN Reply(400, d)
  ELSE
    LET checked == create_check_items(d, payload.from_branch_id, payload.items)
        movement == [from_branch_id |-> payload.from_branch_id,
                     to_branch_id |-> payload.to_branch_id,
                     created_by_id |-> user.id,
                     status |-> "waiting",
                     reason |-> Null,
                     processed_by_id |-> Null,
                     processed_at |-> Null,
                     items |-> payload.items]
        d1 == [d EXCEPT !.movements = Append(@, movement)]
        access == movement_access_status(movement, user)
    IN  IF checked # 0 THEN Reply(checked, d)
        ELSE Reply(IF access # 0 THEN access ELSE 201, commit(d, d1))

accept_validate_skipped(d, from_branch_id, items) == Reply(0, d)

\* lines 212-218: adjust_stock(.., 0) reads (or creates) the source row of every
\* line and compares it with the line; r = [status, db]
RECURSIVE accept_validate(_, _, _)
accept_validate(d, from_branch_id, items) ==
  IF items = <<>> THEN Reply(0, d)
  ELSE
    LET item == Head(items)
        d1 == adjust_stock(d, from_branch_id, item.product_id, 0, FALSE)
    IN  IF StockQty(d1, from_branch_id, item.product_id) < item.quantity
          THEN Reply(400, d1)
        ELSE accept_validate(d1, from_branch_id, Tail(items))

\* lines 220-222: debit the source and credit the destination, line by line
RECURSIVE accept_apply(_, _, _, _)
accept_apply(d, from_branch_id, to_branch_id, items) ==
  IF items = <<>> THEN d
  ELSE
    LET item == Head(items)
        d1 == adjust_stock(d, from_branch_id, item.product_id, 0 - item.quantity, FALSE)
        d2 == adjust_stock(d1, to_branch_id, item.product_id, item.quantity, FALSE)
    IN  accept_apply(d2, from_branch_id, to_branch_id, Tail(items))

is_waiting_unchecked(movement) == TRUE

\* lines 204-205 and 255-256: only a waiting movement is processed
is_waiting(movement) == movement.status = "waiting"

accept_movement(d, movement_id, user) ==
  IF movement_id \notin DOMAIN d.movements THEN Reply(404, d)
  ELSE
    LET movement == d.movements[movement_id]
        access == movement_access_status(movement, user)
        v == accept_validate(d, movement.from_branch_id, movement.items)
        d1 == accept_apply(v.db, movement.from_branch_id, movement.to_branch_id,
                           movement.items)
        d2 == [d1 EXCEPT !.movements[movement_id].status = "done",
                         !.movements[movement_id].processed_by_id = user.id,
                         !.movements[movement_id].processed_at = "set",
                         !.movements[movement_id].reason = Null]
    IN  IF access # 0 THEN Reply(access, d)
        ELSE IF ~is_waiting(movement) THEN Reply(400, d)
        ELSE IF user.role # "admin" /\ movement.to_branch_id # user.branch_id
          THEN Reply(403, d)
        ELSE IF v.status # 0 THEN Reply(v.status, rollback(d, v.db))
        ELSE Reply(200, commit(d, d2))

reject_movement_returning(d, movement_id, reason, user) ==
  IF movement_id \notin DOMAIN d.movements THEN Reply(404, d)
  ELSE
    LET movement == d.movements[movement_id]
        d1 == adjust_stock(d, movement.from_branch_id, Head(movement.items).product_id,
                           Head(movement.items).quantity, FALSE)
    IN  IF ~is_waiting(movement) THEN Reply(400, d)
        ELSE Reply(200, [d1 EXCEPT !.movements[movement_id].status = "rejected"])

reject_movement(d, movement_id, reason, user) ==
  IF movement_id \notin DOMAIN d.movements THEN Reply(404, d)
  ELSE
    LET movement == d.movements[movement_id]
        access == movement_access_status(movement, user)
        d1 == [d EXCEPT !.movements[movement_id].status = "rejected",
                        !.movements[movement_id].processed_by_id = user.id,
                        !.movements[movement_id].processed_at = "set",
                        !.movements[movement_id].reason = reason]
    IN  IF access # 0 THEN Reply(access, d)
        ELSE IF ~is_waiting(movement) THEN Reply(400, d)
        ELSE IF user.role # "admin" /\ movement.to_branch_id # user.branch_id
          THEN Reply(403, d)
        ELSE Reply(200, commit(d, d1))

(***************************************************************************)
(* schemas/returns.py and routes_returns.py                                *)
(***************************************************************************)
\* schemas/returns.py lines 11-15: the fields of the request model ReturnCreate.
\* A key of the request body that is no field is dropped by the model, and
\* reading an attribute that is no field raises AttributeError.
ReturnCreate == {"sale_id", "type", "items", "reason"}

has_field(schema, name) == name \in schema

\* lines 73-77: the quantity of a sale item that persisted returns cover
RECURSIVE returned_in_items(_, _)
returned_in_items(items, sale_item_id) ==
  IF items = <<>> THEN 0
  ELSE (IF Head(items).sale_item_id = sale_item_id THEN Head(items).quantity ELSE 0)
       + returned_in_items(Tail(items), sale_item_id)

RECURSIVE returned_from(_, _, _, _)
returned_from(returns, sale_id, sale_item_id, i) ==
  IF i > Len(returns) THEN 0
  ELSE (IF returns[i].sale_id = sale_id
          THEN returned_in_items(returns[i].items, sale_item_id) ELSE 0)
       + returned_from(returns, sale_id, sale_item_id, i + 1)

returned_qty(d, sale_id, sale_item_id) == returned_from(d.returns, sale_id, sale_item_id, 1)

\* lines 57-58: by_receipt asks for every sale item with its sold quantity
RECURSIVE receipt_entries(_, _)
receipt_entries(items, i) ==
  IF i > Len(items) THEN <<>>
  ELSE <<[sale_item_id |-> i, quantity |-> items[i].quantity]>> \o receipt_entries(items, i + 1)

\* lines 62-68: the check of every entry of a by_item request; 0 when all pass
RECURSIVE by_item_check(_, _)
by_item_check(sale, entries) ==
  IF entries = <<>> THEN 0
  ELSE
    LET entry == Head(entries)
    IN  IF entry.sale_item_id \notin DOMAIN sale.items THEN 404
        ELSE IF entry.quantity <= 0 \/ entry.quantity > sale.items[entry.sale_item_id].quantity
          THEN 400
        ELSE by_item_check(sale, Tail(entries))

\* lines 85-86
return_amount(sale_item, qty) ==
  (IF sale_item.quantity # 0 THEN sale_item.total \div sale_item.quantity ELSE sale_item.price) * qty

\* lines 70-97: the loop over items_to_process; r = [status, db, items]
RECURSIVE return_items_loop(_, _, _, _)
return_items_loop(d, sale_id, entries, done) ==
  IF entries = <<>> THEN [status |-> 0, db |-> d, items |-> done]
  ELSE
    LET entry == Head(entries)
        sale == d.sales[sale_id]
        sale_item == sale.items[entry.sale_item_id]
        available_for_return ==
          Max(sale_item.quantity - returned_qty(d, sale_id, entry.sale_item_id), 0)
    IN  IF entry.quantity > available_for_return
          THEN [status |-> 400, db |-> d, items |-> done]
        ELSE
          LET d1 == adjust_stock(d, sale.branch_id, sale_item.product_id, entry.quantity, FALSE)
              d2 == [d1 EXCEPT !.product[sale_item.product_id] = @ + entry.quantity]
              return_item == [sale_item_id |-> entry.sale_item_id,
                              quantity |-> entry.quantity,
                              amount |-> return_amount(sale_item, entry.quantity)]
          IN  return_items_loop(d2, sale_id, Tail(entries), Append(done, return_item))

\* lines 48-98: _build_return_items
build_return_items(d, sale_id, payload) ==
  LET sale == d.sales[sale_id]
      checked == by_item_check(sale, payload.items)
  IN  IF payload.type \notin {"by_receipt", "by_item"}
        THEN [status |-> 400, db |-> d, items |-> <<>>]
      ELSE IF payload.type = "by_receipt"
        THEN return_items_loop(d, sale_id, receipt_entries(sale.items, 1), <<>>)
      ELSE IF payload.items = <<>> THEN [status |-> 400, db |-> d, items |-> <<>>]
      ELSE IF checked # 0 THEN [status |-> checked, db |-> d, items |-> <<>>]
      ELSE return_items_loop(d, sale_id, payload.items, <<>>)

\* lines 166-174: the allocation walk of the debt offset
RECURSIVE offset_allocate(_, _, _)
offset_allocate(debts, ids, remaining) ==
  IF ids = <<>> THEN debts
  ELSE
    LET id == Head(ids)
        debt_remaining == debts[id].amount - debts[id].paid
    IN  IF debt_remaining <= 0 THEN offset_allocate(debts, Tail(ids), remaining)
        ELSE
          LET portion == Min(remaining, debt_remaining)
              debts2 == [debts EXCEPT ![id].paid = @ + portion]
          IN  IF remaining - portion <= 0 THEN debts2
              ELSE offset_allocate(debts2, Tail(ids), remaining - portion)

RECURSIVE SumAmounts(_)
SumAmounts(items) == IF items = <<>> THEN 0 ELSE Head(items).amount + SumAmounts(Tail(items))

\* lines 127-185: the debt offset of a return whose request asks for it
apply_debt_offset(d0, d, return_id, payload) ==
  LET sale == d.sales[payload.sale_id]
      client_id == sale.client_id
      outstanding == d.clients[client_id]
      return_total == SumAmounts(d.returns[return_id].items)
      max_offset == Min(outstanding, return_total)
      offset_amount == IF payload.debt_offset_given THEN payload.debt_offset_amount
                       ELSE max_offset
      d1 == [d EXCEPT !.returns[return_id].apply_to_debt = TRUE,
                      !.returns[return_id].debt_offset_given = TRUE,
                      !.returns[return_id].debt_offset_amount = offset_amount]
      d2 == [d1 EXCEPT !.debts = offset_allocate(@, open_debts(@, client_id), offset_amount),
                       !.clients[client_id] = Max(outstanding - offset_amount, 0),
                       !.payments = Append(@, [client_id |-> client_id,
                                               debt_id |-> 0,
                                               amount |-> offset_amount,
                                               payment_type |-> "offset"])]
  IN  IF client_id = 0 THEN Reply(400, rollback(d0, d))
      ELSE IF max_offset <= 0 THEN Reply(400, rollback(d0, d))
      ELSE IF offset_amount < 0 THEN Reply(400, rollback(d0, d))
      ELSE IF offset_amount > max_offset THEN Reply(400, rollback(d0, d))
      ELSE IF offset_amount > 0 THEN Reply(201, commit(d0, d2))
      ELSE Reply(201, commit(d0, d1))

create_return(d, payload, user) ==
  IF payload.sale_id \notin DOMAIN d.sales THEN Reply(404, rollback(d, d))
  ELSE
    LET sale == d.sales[payload.sale_id]
        b == build_return_items(d, payload.sale_id, payload)
        return_id == Len(d.returns) + 1
        return_entry == [sale_id |-> payload.sale_id, branch_id |-> sale.branch_id,
                         type |-> payload.type, created_by_id |-> user.id,
                         apply_to_debt |-> FALSE, debt_offset_given |-> FALSE,
                         debt_offset_amount |-> 0, items |-> b.items]
        d1 == [b.db EXCEPT !.returns = Append(@, return_entry)]
    IN  IF b.status # 0 THEN Reply(b.status, rollback(d, b.db))
        ELSE IF ~has_field(ReturnCreate, "apply_to_debt")
          THEN Reply(500, rollback(d, d1))   \* line 127: AttributeError
        ELSE IF payload.apply_to_debt THEN apply_debt_offset(d, d1, return_id, payload)
        ELSE Reply(201, commit(d, d1))

(***************************************************************************)
(* routes_income.py                                                        *)
(***************************************************************************)
\* lines 35-45: _resolve_branch; 0 when the caller has no branch to book on
resolve_branch(branch_id, user) ==
  IF user.role = "employee" THEN user.branch_id ELSE branch_id

\* lines 81-96: the loop over the items of an income; r = [status, db]
RECURSIVE income_items_loop(_, _, _)
income_items_loop(d, branch_id, items) ==
  IF items = <<>> THEN Reply(0, d)
  ELSE
    LET item == Head(items)
    IN  IF item.product_id \notin Products THEN Reply(404, d)
        ELSE
          LET d1 == [d EXCEPT !.product[item.product_id] = @ + item.quantity]
              d2 == adjust_stock(d1, branch_id, item.product_id, item.quantity, FALSE)
          IN  income_items_loop(d2, branch_id, Tail(items))

\* lines 72-100
create_income(d, payload, user) ==
  LET branch_id == resolve_branch(payload.branch_id, user)
      income == [branch_id |-> branch_id, created_by_id |-> user.id,
                 items |-> payload.items, present |-> TRUE]
      l == income_items_loop(d, branch_id, payload.items)
      d1 == [l.db EXCEPT !.incomes = Append(@, income)]
  IN  IF user.role = "employee" /\ user.branch_id = 0 THEN Reply(400, d)
      ELSE IF l.status # 0 THEN Reply(l.status, rollback(d, l.db))
      ELSE Reply(201, commit(d, d1))

\* lines 119-123: the loop over the items of the income that is deleted
RECURSIVE delete_items_loop(_, _, _)
delete_items_loop(d, branch_id, items) ==
  IF items = <<>> THEN d
  ELSE
    LET item == Head(items)
        d1 == IF item.product_id \in Products
                THEN [d EXCEPT !.product[item.product_id] = @ - item.quantity]
              ELSE d
        d2 == adjust_stock(d1, branch_id, item.product_id, 0 - item.quantity, TRUE)
    IN  delete_items_loop(d2, branch_id, Tail(items))

\* lines 108-130.  The row db.delete removes keeps its place with present
\* FALSE, so that the id of a deleted income is not given to a later one.
delete_income(d, income_id, user) ==
  IF user.role # "admin" THEN Reply(403, d)
  ELSE IF income_id \notin DOMAIN d.incomes \/ ~d.incomes[income_id].present
    THEN Reply(404, d)
  ELSE
    LET income == d.incomes[income_id]
        d1 == delete_items_loop(d, income.branch_id, income.items)
        d2 == [d1 EXCEPT !.incomes[income_id].present = FALSE]
    IN  Reply(200, commit(d, d2))

(***************************************************************************)
(* routes_counterparty_sales.py                                            *)
(***************************************************************************)
Counterparties == {1}

\* lines 101-127: the loop over the items of a wholesale sale; r = [status, db]
RECURSIVE counterparty_items_loop(_, _, _)
counterparty_items_loop(d, branch_id, items) ==
  IF items = <<>> THEN Reply(0, d)
  ELSE
    LET item == Head(items)
    IN  IF item.product_id \notin Products THEN Reply(404, d)
        ELSE IF item.quantity <= 0 THEN Reply(400, d)
        ELSE
          LET d1 == adjust_stock(d, branch_id, item.product_id, 0 - item.quantity, TRUE)
              d2 == [d1 EXCEPT !.product[item.product_id] = @ - item.quantity]
          IN  counterparty_items_loop(d2, branch_id, Tail(items))

\* lines 74-136; the sale branch of the settings is StoreBranch
create_counterparty_sale(d, payload, user) ==
  LET branch_id == StoreBranch
      sale == [counterparty_id |-> payload.counterparty_id, created_by_id |-> user.id,
               branch_id |-> branch_id, items |-> payload.items]
      l == counterparty_items_loop(d, branch_id, payload.items)
      d1 == [l.db EXCEPT !.counterparty_sales = Append(@, sale)]
  IN  IF payload.items = <<>> THEN Reply(400, d)
      ELSE IF payload.counterparty_id # 0 /\ payload.counterparty_id \notin Counterparties
        THEN Reply(404, d)
      ELSE IF l.status # 0 THEN Reply(l.status, rollback(d, l.db))
      ELSE Reply(201, commit(d, d1))

(***************************************************************************)
(* The requests.  Each action is one request served alone: the handler     *)
(* runs from its first statement to its commit or rollback.  The state     *)
(* the requests start from is a shop whose sale branch holds InitQty units *)
(* of every product, as an income leaves it.                               *)
(***************************************************************************)
InitQty == 2
MaxIncomes == 2
MaxCounterpartySales == 1

InitDB ==
  [stock |-> [k \in {<<StoreBranch, p>> : p \in Products} |-> InitQty],
   product |-> [p \in Products |-> InitQty],
   movements |-> <<>>,
   clients |-> [c \in Clients |-> 0],
   debts |-> <<>>,
   payments |-> <<>>,
   sales |-> <<>>,
   returns |-> <<>>]

NoRequest == [op |-> "none", status |-> 0, key |-> 0]

Idle == <<>>

Init == db = InitDB /\ last = NoRequest /\ tx = Idle

\* The reply of a request: the committed state it leaves, and in `last` the
\* handler, the HTTP status and the id the request named.
Served(op, key, r) ==
  /\ db' = r.db
  /\ last' = [op |-> op, status |-> r.status, key |-> key]
  /\ UNCHANGED tx

User(id) == CHOOSE u \in Users : u.id = id

CreateSaleReq(payloads, users) ==
  /\ Len(db.sales) < MaxSales
  /\ \E payload \in payloads, user \in users :
       Served("create_sale", payload.client_id, create_sale(db, payload, user))

PayOffDebtReq(payloads, users) ==
  /\ Len(db.payments) < MaxPayments
  /\ \E payload \in payloads, user \in users :
       Served("pay_off_debt", payload.debt_id, pay_off_debt(db, payload, user))

CreateReturnReq(payloads, users) ==
  \E payload \in payloads, user \in users :
    Served("create_return", payload.sale_id, create_return(db, payload, user))

CreateMovementReq(payloads, users) ==
  /\ Len(db.movements) < MaxMovements
  /\ \E payload \in payloads, user \in users :
       Served("create_movement", 0, create_movement(db, payload, user))

AcceptMovementReq(ids, users) ==
  \E movement_id \in ids, user \in users :
    Served("accept_movement", movement_id, accept_movement(db, movement_id, user))

RejectMovementReq(ids, reasons, users) ==
  \E movement_id \in ids, reason \in reasons, user \in users :
    Served("reject_movement", movement_id, reject_movement(db, movement_id, reason, user))

(***************************************************************************)
(* SpecDebt: credit sales, debt payments and returns with a debt offset.   *)
(***************************************************************************)
OneLine(product_id, quantity, price) ==
  <<[product_id |-> product_id, quantity |-> quantity, price |-> price, discount |-> 0]>>

DebtSalePayloads ==
  { [client_id |-> c, items |-> OneLine(1, 1, m[1] + m[2]),
     paid_cash |-> m[1], paid_card |-> 0, paid_debt |-> m[2]] :
    c \in {0, 1}, m \in {<<1, 0>>, <<0, 1>>, <<0, 2>>} }

DebtSale == CreateSaleReq(DebtSalePayloads, {User("admin")})

DebtPayloads ==
  [client_id : {1, 2, 9}, amount : 0..3, debt_id : 0..(MaxSales + 1),
   payment_type : {"cash"}]

DebtPay == PayOffDebtReq(DebtPayloads, {User("admin"), User("emp0")})

DebtReturnPayloads ==
  [sale_id : 1..MaxSales, type : {"by_receipt"}, items : {<<>>},
   apply_to_debt : BOOLEAN, debt_offset_given : BOOLEAN, debt_offset_amount : {0, 1}]

DebtReturn == CreateReturnReq(DebtReturnPayloads, {User("admin")})

NextDebt == DebtSale \/ DebtPay \/ DebtReturn

SpecDebt == Init /\ [][NextDebt]_vars

RECURSIVE outstanding_from(_, _, _)
outstanding_from(debts, client_id, i) ==
  IF i > Len(debts) THEN 0
  ELSE (IF debts[i].client_id = client_id THEN Max(debts[i].amount - debts[i].paid, 0) ELSE 0)
       + outstanding_from(debts, client_id, i + 1)

\* the sum over the client's Debt rows of max(amount - paid, 0)
Outstanding(d, client_id) == outstanding_from(d.debts, client_id, 1)

\* C1: in every reachable state each client's total_debt equals the sum of the
\* outstanding amounts of that client's debts.
C1_DebtBalanceConsistent ==
  \A c \in Clients : db.clients[c] = Outstanding(db, c)

(***************************************************************************)
(* SpecMove: transfers between the two branches, with cash sales at the    *)
(* sale branch changing the source stock between creation and acceptance.  *)
(***************************************************************************)
MoveLine(product_id, quantity) == [product_id |-> product_id, quantity |-> quantity]

MoveItemLists ==
  { <<>>,
    <<MoveLine(1, 1)>>, <<MoveLine(1, 2)>>, <<MoveLine(1, 3)>>,
    <<MoveLine(1, 1), MoveLine(1, 1)>>, <<MoveLine(1, 2), MoveLine(1, 1)>>,
    <<MoveLine(1, 1), MoveLine(2, 2)>>,
    <<MoveLine(9, 1)>>, <<MoveLine(1, 0)>> }

MovementPayloads ==
  [from_branch_id : Branches, to_branch_id : Branches, items : MoveItemLists]

MoveCreate == CreateMovementReq(MovementPayloads, {User("admin"), User("emp0")})

MovementIds == 1..(MaxMovements + 1)

MoveAccept == AcceptMovementReq(MovementIds, Users)

Reasons == {Null, "damaged"}

MoveReject == RejectMovementReq(MovementIds, Reasons, Users)

CashSalePayloads ==
  { [client_id |-> 0, items |-> OneLine(1, 1, 1),
     paid_cash |-> 1, paid_card |-> 0, paid_debt |-> 0] }

MoveSale == CreateSaleReq(CashSalePayloads, {User("admin")})

NextMove == MoveCreate \/ MoveAccept \/ MoveReject \/ MoveSale

SpecMove == Init /\ [][NextMove]_vars

RECURSIVE LineQty(_, _)
\* the quantity the lines of a transfer name of one product
LineQty(items, product_id) ==
  IF items = <<>> THEN 0
  ELSE (IF Head(items).product_id = product_id THEN Head(items).quantity ELSE 0)
       + LineQty(Tail(items), product_id)

Accepted == last'.op = "accept_movement" /\ last'.status = 200

\* C2: when accept_movement succeeds, for every product the source branch's stock
\* falls and the destination's rises by the quantity the lines name of it, lines
\* naming the same product included, so the product's total over the two
\* branches is unchanged.
C2_TransferConservation ==
  [][Accepted =>
       LET m == db.movements[last'.key]
       IN  \A p \in Products :
             /\ StockQty(db', m.from_branch_id, p)
                  = StockQty(db, m.from_branch_id, p) - LineQty(m.items, p)
             /\ StockQty(db', m.to_branch_id, p)
                  = StockQty(db, m.to_branch_id, p) + LineQty(m.items, p)]_vars

Terminal(movement) == movement.status \in {"done", "rejected"}

Processing(m) == last'.op \in {"accept_movement", "reject_movement"} /\ last'.key = m

\* C5 as stated: accept_movement or reject_movement on a done or rejected
\* transfer answers 400 and changes nothing.
C5_TerminalAnswers400 ==
  [][\A m \in DOMAIN db.movements :
       (Terminal(db.movements[m]) /\ Processing(m)) => (last'.status = 400 /\ db' = db)]_vars

\* C5: a transfer's status moves only waiting -> done or waiting -> rejected; a
\* done or rejected transfer never changes again, and accept_movement or
\* reject_movement on it fails (400, or 403 when the caller has no access to the
\* transfer) and changes neither stock nor status, reason, processed_by, processed_at.
C5_TerminalTransfers ==
  [][\A m \in DOMAIN db.movements :
       LET old == db.movements[m]
           new == db'.movements[m]
       IN  /\ Terminal(old) => new = old
           /\ new.status # old.status => (old.status = "waiting" /\ Terminal(new))
           /\ (Terminal(old) /\ Processing(m)) => (last'.status \in {400, 403} /\ db' = db)]_vars

\* a done or rejected transfer was asked to be processed again and the request failed
C5_Witness ==
  /\ last.op \in {"accept_movement", "reject_movement"}
  /\ last.status = 400
  /\ last.key \in DOMAIN db.movements
  /\ Terminal(db.movements[last.key])

(***************************************************************************)
(* SpecAdjust: adjust_stock called as its callers call it, with either     *)
(* setting of allow_negative, from every quantity earlier calls left        *)
(***************************************************************************)
Deltas == {-3, -2, -1, 0, 1, 2, 3}

AdjustStock ==
  \E branch_id \in Branches, delta \in Deltas, allow_negative \in BOOLEAN :
    LET before == StockQty(db, branch_id, 1)
        d1     == adjust_stock(db, branch_id, 1, delta, allow_negative)
        after  == StockQty(d1, branch_id, 1)
    IN  /\ after \in -MaxStock..MaxStock
        /\ db' = d1
        /\ last' = [op |-> "adjust_stock", status |-> 0,
                    key |-> [branch_id |-> branch_id, delta |-> delta,
                             allow_negative |-> allow_negative, before |-> before]]
        /\ UNCHANGED tx

NextAdjust == AdjustStock

SpecAdjust == Init /\ [][NextAdjust]_vars

\* C4: with allow_negative=False adjust_stock leaves the row at
\* max(old + delta, 0), so never negative, from any starting quantity, a negative
\* one included; with allow_negative=True it stores old + delta, negative or not.
C4_AdjustStockClamp ==
  [][last'.op = "adjust_stock" =>
       LET k      == last'.key
           before == StockQty(db, k.branch_id, 1)
           after  == StockQty(db', k.branch_id, 1)
       IN  /\ HasStock(db', k.branch_id, 1)
           /\ k.allow_negative => after = before + k.delta
           /\ ~k.allow_negative => (after >= 0 /\ after = Max(before + k.delta, 0))]_vars

\* a row left negative by an oversell was adjusted without allow_negative and clamped to 0
C4_Witness ==
  /\ last.op = "adjust_stock"
  /\ ~last.key.allow_negative
  /\ last.key.before < 0
  /\ last.key.before + last.key.delta < 0
  /\ StockQty(db, last.key.branch_id, 1) = 0

(***************************************************************************)
(* SpecReturn: cash sales of one line and return requests on them          *)
(***************************************************************************)
ReturnSalePayloads ==
  { [client_id |-> c, items |-> OneLine(p, q, 1),
     paid_cash |-> q, paid_card |-> 0, paid_debt |-> 0] :
    c \in {0, 1}, p \in Products, q \in {1, 2, 3} }

ReturnSale == CreateSaleReq(ReturnSalePayloads, {User("admin")})

ReturnEntry(sale_item_id, quantity) == [sale_item_id |-> sale_item_id, quantity |-> quantity]

ReturnItemLists ==
  { <<>>, <<ReturnEntry(1, 1)>>, <<ReturnEntry(1, 2)>>, <<ReturnEntry(1, 0)>>,
    <<ReturnEntry(2, 1)>>, <<ReturnEntry(1, 1), ReturnEntry(1, 1)>> }

ReturnPayloads ==
  [sale_id : 1..(MaxSales + 1), type : {"by_receipt", "by_item", "other"},
   items : ReturnItemLists,
   apply_to_debt : {FALSE}, debt_offset_given : {FALSE}, debt_offset_amount : {0}]

ReturnReq == CreateReturnReq(ReturnPayloads, {User("admin"), User("emp2")})

NextReturn == ReturnSale \/ ReturnReq

SpecReturn == Init /\ [][NextReturn]_vars

SalePayloads ==
  { [client_id |-> x[1], items |-> OneLine(x[2], x[3], 1),
     paid_cash |-> x[4], paid_card |-> 0, paid_debt |-> x[5]] :
    x \in { <<0, 1, 1, 1, 0>>,     \* cash sale
            <<1, 1, 1, 0, 1>>,     \* credit sale
            <<0, 1, 1, 0, 1>>,     \* credit without a client
            <<9, 1, 1, 1, 0>>,     \* unknown client
            <<0, 9, 1, 1, 0>>,     \* unknown product
            <<0, 1, 3, 3, 0>>,     \* more than the stock
            <<1, 1, 1, 1, 1>> } }  \* payments do not add up to the total

SaleReq == CreateSaleReq(SalePayloads, Users)

PayPayloads ==
  [client_id : {1, 9}, amount : {0, 1, 2}, debt_id : {0, 1, 9}, payment_type : {"cash"}]

PayReq == PayOffDebtReq(PayPayloads, {User("admin"), User("emp0")})

SaleReturnPayloads ==
  [sale_id : {1, 9}, type : {"by_receipt", "by_item"},
   items : {<<>>, <<ReturnEntry(1, 1)>>, <<ReturnEntry(1, 2)>>},
   apply_to_debt : BOOLEAN, debt_offset_given : BOOLEAN, debt_offset_amount : {0, 1, 2}]

SaleReturnReq == CreateReturnReq(SaleReturnPayloads, {User("admin")})

TransferPayloads ==
  [from_branch_id : {StoreBranch}, to_branch_id : {2},
   items : {<<MoveLine(1, 1)>>, <<MoveLine(1, 2)>>, <<MoveLine(2, 1), MoveLine(1, 2)>>}]

TransferReq == CreateMovementReq(TransferPayloads, {User("admin")})

AcceptReq == AcceptMovementReq(MovementIds, {User("admin"), User("emp1"), User("emp2")})

Next == SaleReq \/ PayReq \/ SaleReturnReq \/ TransferReq \/ AcceptReq

Spec == Init /\ [][Next]_vars

Failed(ops) == last'.op \in ops /\ last'.status >= 400

\* C10: when create_sale, create_return, accept_movement or pay_off_debt fails,
\* the committed state after the request equals the committed state before it.
C10_FailureRollsBack ==
  [][Failed({"create_sale", "create_return", "accept_movement", "pay_off_debt"})
       => db' = db]_vars

(***************************************************************************)
(* Requests served at once by two server processes over one PostgreSQL     *)
(* database (core/config.py, READ COMMITTED).  Every request has its own   *)
(* Session (database/session.py): a row keeps in the session the values of *)
(* its first read, a flush writes the changed rows as absolute values, and *)
(* a written or FOR UPDATE row stays locked until the commit or rollback.  *)
(* tx holds the requests in flight: the rows the session read (view), the  *)
(* rows it locked, and the statement it is at (pc).                        *)
(***************************************************************************)
Workers == {1, 2}

InFlight == DOMAIN tx

Tx(op, pc, key, payload, user, view, locks) ==
  [op |-> op, pc |-> pc, key |-> key, payload |-> payload, user |-> user,
   view |-> view, locks |-> locks]

Put(w, t) == tx' = [o \in InFlight \cup {w} |-> IF o = w THEN t ELSE tx[o]]

Ended(w) == tx' = [o \in InFlight \ {w} |-> tx[o]]

At(w, op, pc) == w \in InFlight /\ tx[w].op = op /\ tx[w].pc = pc

Running(op) == Cardinality({w \in InFlight : tx[w].op = op})

locked_by_others(w) == UNION { tx[o].locks : o \in InFlight \ {w} }

\* an UPDATE or INSERT of rows waits while another transaction holds one of them
rows_free(w, rows) == rows \cap locked_by_others(w) = {}

for_update_skipped(w, rows) == TRUE

\* routes_returns.py lines 41 and 72: SELECT ... FOR UPDATE waits likewise
for_update_granted(w, rows) == rows \cap locked_by_others(w) = {}

\* the stock rows a session changed or added since it read them
stock_rows(read, session) ==
  { <<"stock", k[1], k[2]>> : k \in { x \in DOMAIN session.stock :
        x \notin DOMAIN read.stock \/ session.stock[x] # read.stock[x] } }

\* the flush of a keyed table: changed and new rows overwrite the committed ones
flushed_table(committed, read, session) ==
  LET written == { k \in DOMAIN session : k \notin DOMAIN read \/ session[k] # read[k] }
  IN  [k \in DOMAIN committed \cup written |->
         IF k \in written THEN session[k] ELSE committed[k]]

\* the flush of a table with serial ids: changed rows are updated, new rows inserted
flushed_rows(committed, read, session) ==
  [i \in 1..Len(committed) |->
     IF i <= Len(read) /\ session[i] # read[i] THEN session[i] ELSE committed[i]]
  \o SubSeq(session, Len(read) + 1, Len(session))

\* database/session.py line 26 (autoflush=False) and the commit of a handler:
\* the session writes what it changed, whatever was committed meanwhile
flush(committed, read, session) ==
  LET shift  == Len(committed.sales) - Len(read.sales)
      rekeyed == [i \in DOMAIN session.debts |->
                    IF i > Len(read.debts)
                      THEN [session.debts[i] EXCEPT !.sale_id = @ + shift]
                    ELSE session.debts[i]]
  IN  [stock     |-> flushed_table(committed.stock, read.stock, session.stock),
       product   |-> flushed_rows(committed.product, read.product, session.product),
       sales     |-> flushed_rows(committed.sales, read.sales, session.sales),
       clients   |-> flushed_rows(committed.clients, read.clients, session.clients),
       debts     |-> flushed_rows(committed.debts, read.debts, rekeyed),
       payments  |-> flushed_rows(committed.payments, read.payments, session.payments),
       movements |-> flushed_rows(committed.movements, read.movements, session.movements),
       returns   |-> flushed_rows(committed.returns, read.returns, session.returns)]

\* the reply of a request in flight, and the end of its transaction
Answered(w, status, d) ==
  /\ db' = d
  /\ last' = [op |-> tx[w].op, status |-> status, key |-> tx[w].key]
  /\ Ended(w)

\* a request that fails is answered at once when it has no row to wait for
Refused(w, op, key, r) ==
  /\ locked_by_others(w) = {}
  /\ Served(op, key, r)

\* routes_sales.py lines 195-229: the checks, the INSERT of the sale and the
\* read of the product and stock row of the (one) line
SaleRead(payloads, users) ==
  \E w \in Workers, payload \in payloads, user \in users :
    LET r == create_sale(db, payload, user)
    IN  /\ w \notin InFlight
        /\ Len(db.sales) + Running("create_sale") < MaxSales
        /\ IF r.status >= 400
             THEN Refused(w, "create_sale", payload.client_id, r)
             ELSE /\ Put(w, Tx("create_sale", "write", payload.client_id, payload, user, db, {}))
                  /\ UNCHANGED <<db, last>>

\* routes_sales.py lines 239-275: the UPDATE of the stock row, the first read of
\* the client (line 266) and the commit
SaleWrite ==
  \E w \in Workers :
    /\ At(w, "create_sale", "write")
    /\ LET t    == tx[w]
           read == [t.view EXCEPT !.clients = db.clients]
           r    == create_sale(read, t.payload, t.user)
       IN  /\ rows_free(w, stock_rows(read, r.db))
           /\ Answered(w, r.status, flush(db, read, r.db))

\* routes_debts.py lines 30-66: the read of the client and of the open debts
PayRead(payloads, users) ==
  \E w \in Workers, payload \in payloads, user \in users :
    LET r == pay_off_debt(db, payload, user)
    IN  /\ w \notin InFlight
        /\ Len(db.payments) + Running("pay_off_debt") < MaxPayments + 1
        /\ IF r.status >= 400
             THEN Refused(w, "pay_off_debt", payload.debt_id, r)
             ELSE /\ Put(w, Tx("pay_off_debt", "commit", payload.debt_id, payload, user, db, {}))
                  /\ UNCHANGED <<db, last>>

\* routes_debts.py lines 68-90: the allocation on the rows as read, and the commit
PayCommit ==
  \E w \in Workers :
    /\ At(w, "pay_off_debt", "commit")
    /\ LET t == tx[w]
           r == pay_off_debt(t.view, t.payload, t.user)
       IN  Answered(w, r.status, flush(db, t.view, r.db))

\* routes_movements.py lines 197-218: the read of the movement, the status check
\* and the read of the source stock rows
AcceptCheck(ids, users) ==
  \E w \in Workers, movement_id \in ids, user \in users :
    LET r == accept_movement(db, movement_id, user)
    IN  /\ w \notin InFlight
        /\ IF r.status >= 400
             THEN Refused(w, "accept_movement", movement_id, r)
             ELSE /\ Put(w, Tx("accept_movement", "apply", movement_id, movement_id, user, db, {}))
                  /\ UNCHANGED <<db, last>>

\* the destination rows are first read by adjust_stock in the apply loop
with_destination_rows(view, committed, to_branch_id) ==
  LET fresh == { k \in DOMAIN committed.stock : k[1] = to_branch_id }
      kept  == { k \in DOMAIN view.stock : k[1] # to_branch_id }
  IN  [view EXCEPT !.stock = [k \in fresh \cup kept |->
                                IF k \in fresh THEN committed.stock[k] ELSE view.stock[k]]]

\* routes_movements.py lines 220-222: the UPDATEs of the apply loop
AcceptApply ==
  \E w \in Workers :
    /\ At(w, "accept_movement", "apply")
    /\ LET t    == tx[w]
           read == with_destination_rows(t.view, db, t.view.movements[t.key].to_branch_id)
           r    == accept_movement(read, t.key, t.user)
           rows == stock_rows(read, r.db)
       IN  /\ rows_free(w, rows)
           /\ Put(w, [t EXCEPT !.pc = "commit", !.view = read, !.locks = rows])
           /\ UNCHANGED <<db, last>>

\* routes_movements.py lines 224-228: the UPDATE of the movement and the commit
AcceptCommit ==
  \E w \in Workers :
    /\ At(w, "accept_movement", "commit")
    /\ LET t == tx[w]
           r == accept_movement(t.view, t.key, t.user)
       IN  Answered(w, r.status, flush(db, t.view, r.db))

\* routes_movements.py lines 248-256: the read of the movement and the status check
RejectCheck(ids, reasons, users) ==
  \E w \in Workers, movement_id \in ids, reason \in reasons, user \in users :
    LET r == reject_movement(db, movement_id, reason, user)
    IN  /\ w \notin InFlight
        /\ IF r.status >= 400
             THEN Refused(w, "reject_movement", movement_id, r)
             ELSE /\ Put(w, Tx("reject_movement", "commit", movement_id, reason, user, db, {}))
                  /\ UNCHANGED <<db, last>>

\* routes_movements.py lines 258-267: the UPDATE of the movement and the commit
RejectCommit ==
  \E w \in Workers :
    /\ At(w, "reject_movement", "commit")
    /\ LET t == tx[w]
           r == reject_movement(t.view, t.key, t.payload, t.user)
       IN  Answered(w, r.status, flush(db, t.view, r.db))

\* routes_returns.py lines 102-107: the request is received
ReturnArrive(payloads, users) ==
  \E w \in Workers, payload \in payloads, user \in users :
    /\ w \notin InFlight
    /\ Put(w, Tx("create_return", "lock", payload.sale_id, payload, user, Null, {}))
    /\ UNCHANGED <<db, last>>

sale_row(sale_id) == <<"sale", sale_id, 0>>

sale_item_rows(d, sale_id) == { <<"sale_item", sale_id, i>> : i \in DOMAIN d.sales[sale_id].items }

\* routes_returns.py lines 36-45: _get_sale_for_return reads the sale FOR UPDATE
ReturnLock ==
  \E w \in Workers :
    /\ At(w, "create_return", "lock")
    /\ LET t == tx[w]
       IN  IF t.key \notin DOMAIN db.sales
             THEN Answered(w, 404, db)
             ELSE /\ for_update_granted(w, {sale_row(t.key)})
                  /\ Put(w, [t EXCEPT !.pc = "read", !.view = db, !.locks = {sale_row(t.key)}])
                  /\ UNCHANGED <<db, last>>

\* routes_returns.py lines 51-83: the checks of the request, the FOR UPDATE read
\* of the sale item and the read of the quantity already returned
ReturnRead ==
  \E w \in Workers :
    /\ At(w, "create_return", "read")
    /\ LET t == tx[w]
           b == build_return_items(db, t.key, t.payload)
       IN  IF b.status # 0
             THEN Answered(w, b.status, db)
             ELSE /\ for_update_granted(w, sale_item_rows(db, t.key))
                  /\ Put(w, [t EXCEPT !.pc = "restock", !.view = db,
                                      !.locks = @ \cup sale_item_rows(db, t.key)])
                  /\ UNCHANGED <<db, last>>

\* routes_returns.py lines 85-97 and 111-125: the UPDATE of the stock row, the
\* ReturnItems and the INSERT of the return
ReturnRestock ==
  \E w \in Workers :
    /\ At(w, "create_return", "restock")
    /\ LET t    == tx[w]
           read == [t.view EXCEPT !.stock = db.stock, !.product = db.product]
           b    == build_return_items(read, t.key, t.payload)
           rows == stock_rows(read, b.db)
       IN  /\ rows_free(w, rows)
           /\ Put(w, [t EXCEPT !.pc = "end", !.view = read, !.locks = @ \cup rows])
           /\ UNCHANGED <<db, last>>

\* routes_returns.py lines 127-193: the debt offset and the commit, or the rollback
ReturnEnd ==
  \E w \in Workers :
    /\ At(w, "create_return", "end")
    /\ LET t == tx[w]
           r == create_return(t.view, t.payload, t.user)
       IN  Answered(w, r.status, flush(db, t.view, r.db))

\* a request served while no other is in flight
Alone(request) == tx = Idle /\ request

(***************************************************************************)
(* SpecConcMove: transfers of one line and sales, two requests at a time   *)
(***************************************************************************)
ConcTransferPayloads ==
  [from_branch_id : {StoreBranch}, to_branch_id : {2}, items : {<<MoveLine(1, 1)>>}]

ConcTransfer == Alone(CreateMovementReq(ConcTransferPayloads, {User("admin")}))

ConcAcceptCheck == AcceptCheck(MovementIds, {User("admin"), User("emp2")})

ConcRejectCheck == RejectCheck(MovementIds, {"damaged"}, {User("admin")})

ConcSalePayloads ==
  { [client_id |-> 0, items |-> OneLine(1, q, 1),
     paid_cash |-> q, paid_card |-> 0, paid_debt |-> 0] : q \in {1, 2} }

ConcSaleRead == SaleRead(ConcSalePayloads, {User("admin")})

NextConcMove ==
  \/ ConcTransfer
  \/ ConcAcceptCheck \/ AcceptApply \/ AcceptCommit
  \/ ConcRejectCheck \/ RejectCommit
  \/ ConcSaleRead \/ SaleWrite

SpecConcMove == Init /\ [][NextConcMove]_vars

RECURSIVE MovedIn(_, _, _)
\* the units of a product that the lines of the done transfers carry
MovedIn(movements, product_id, i) ==
  IF i > Len(movements) THEN 0
  ELSE (IF movements[i].status = "done" THEN LineQty(movements[i].items, product_id) ELSE 0)
       + MovedIn(movements, product_id, i + 1)

RECURSIVE Sold(_, _, _)
\* the units of a product that the lines of the committed sales carry
Sold(sales, product_id, i) ==
  IF i > Len(sales) THEN 0
  ELSE LineQty(sales[i].items, product_id) + Sold(sales, product_id, i + 1)

\* a request of the worker on the transfer is answered with success in this step
Processed(w, m) ==
  /\ w \in InFlight /\ w \notin DOMAIN tx'
  /\ tx[w].op \in {"accept_movement", "reject_movement"} /\ tx[w].key = m
  /\ last'.status = 200

\* C6: of the concurrent accept_movement and reject_movement requests on one
\* waiting transfer at most one succeeds (a request succeeds only while the
\* committed transfer is still waiting), and the destination holds the lines of
\* the done transfers exactly once and nothing of a rejected one.
C6_ProcessedOnce ==
  /\ [](\A p \in Products : StockQty(db, 2, p) = MovedIn(db.movements, p, 1))
  /\ [][\A w \in Workers, m \in DOMAIN db.movements :
          Processed(w, m) => db.movements[m].status = "waiting"]_vars

\* C7: the committed sales and accepted transfers together never take more
\* units of a product from the sale branch than it had on hand.
C7_NoDoubleSpend ==
  \A p \in Products :
    Sold(db.sales, p, 1) + MovedIn(db.movements, p, 1) <= InitQty

(***************************************************************************)
(* SpecConcDebt: credit sales and auto-allocated payments of one unit, two  *)
(* at a time                                                               *)
(***************************************************************************)
ConcCreditPayloads ==
  { [client_id |-> 1, items |-> OneLine(1, 1, m),
     paid_cash |-> 0, paid_card |-> 0, paid_debt |-> m] : m \in {1, 2} }

ConcCreditSale == Alone(CreateSaleReq(ConcCreditPayloads, {User("admin")}))

ConcPayPayloads ==
  [client_id : {1, 9}, amount : {1}, debt_id : {0}, payment_type : {"cash"}]

ConcPayRead == PayRead(ConcPayPayloads, {User("admin"), User("emp0")})

NextConcDebt == ConcCreditSale \/ ConcPayRead \/ PayCommit

SpecConcDebt == Init /\ [][NextConcDebt]_vars

\* the request of the worker commits in this step
Commits(w, op) == At(w, op, "commit") /\ w \notin DOMAIN tx'

\* C8: concurrent debt reductions of a client lose no update: the Debt.paid and
\* total_debt that a payment commits are those the request leaves when it is
\* served after the requests committed before it (the concurrent payments here
\* are the same request, so either order gives that result).
C8_NoLostPayment ==
  [][\A w \in Workers :
       Commits(w, "pay_off_debt") =>
         LET r == pay_off_debt(db, tx[w].payload, tx[w].user)
         IN  db'.debts = r.db.debts /\ db'.clients = r.db.clients]_vars

(***************************************************************************)
(* SpecConcReturn: sales of one line and return requests naming a sale     *)
(* item once, two at a time                                                 *)
(***************************************************************************)
ConcReturnSalePayloads ==
  { [client_id |-> 0, items |-> OneLine(1, q, 1),
     paid_cash |-> q, paid_card |-> 0, paid_debt |-> 0] : q \in {1, 2} }

ConcReturnSale == Alone(CreateSaleReq(ConcReturnSalePayloads, {User("admin")}))

ConcReturnPayloads ==
  [sale_id : 1..(MaxSales + 1), type : {"by_receipt", "by_item"},
   items : {<<>>, <<ReturnEntry(1, 1)>>, <<ReturnEntry(1, 2)>>, <<ReturnEntry(2, 1)>>},
   apply_to_debt : {FALSE}, debt_offset_given : {FALSE}, debt_offset_amount : {0}]

ConcReturnArrive == ReturnArrive(ConcReturnPayloads, {User("admin")})

NextConcReturn ==
  \/ ConcReturnSale
  \/ ConcReturnArrive \/ ReturnLock \/ ReturnRead \/ ReturnRestock \/ ReturnEnd

SpecConcReturn == Init /\ [][NextConcReturn]_vars

\* the request of the worker has read the returned quantity of the sale's items
\* and has not ended
Returning(w, sale_id) ==
  /\ w \in InFlight
  /\ tx[w].op = "create_return" /\ tx[w].pc \in {"restock", "end"}
  /\ tx[w].key = sale_id

\* the quantity of the sale item the request of the worker is returning
ReturningQty(w, sale_id, i) ==
  IF Returning(w, sale_id)
    THEN returned_in_items(build_return_items(tx[w].view, sale_id, tx[w].payload).items, i)
  ELSE 0

RECURSIVE ReturningQtyOf(_, _, _)
ReturningQtyOf(workers, sale_id, i) ==
  IF workers = {} THEN 0
  ELSE LET w == CHOOSE x \in workers : TRUE
       IN  ReturningQty(w, sale_id, i) + ReturningQtyOf(workers \ {w}, sale_id, i)

Short(d, movement) ==
  \E i \in DOMAIN movement.items :
    movement.items[i].quantity
      > StockQty(d, movement.from_branch_id, movement.items[i].product_id)

\* C11: accept_movement on a waiting transfer of which a line exceeds the current
\* source stock fails; no stock row is debited or credited and the transfer
\* stays waiting with processed_by and processed_at unset.
C11_ShortAcceptRefused ==
  [][\A m \in DOMAIN db.movements :
       (last'.op = "accept_movement" /\ last'.key = m
          /\ is_waiting(db.movements[m]) /\ Short(db, db.movements[m]))
       => /\ last'.status >= 400
          /\ db' = db
          /\ db'.movements[m].status = "waiting"
          /\ db'.movements[m].processed_by_id = Null
          /\ db'.movements[m].processed_at = Null]_vars

\* a transfer created while the stock sufficed was refused at acceptance after
\* a sale had lowered the source stock below its line
C11_Witness ==
  /\ last.op = "accept_movement"
  /\ last.status = 400
  /\ last.key \in DOMAIN db.movements
  /\ is_waiting(db.movements[last.key])
  /\ Short(db, db.movements[last.key])
  /\ db.sales # <<>>

(***************************************************************************)
(* SpecTransfer: transfers created and rejected while sales take stock     *)
(***************************************************************************)
NextTransfer == MoveCreate \/ MoveReject \/ MoveSale

SpecTransfer == Init /\ [][NextTransfer]_vars

\* the item lists MovementItemBase admits: every quantity is above 0
Admitted(payload) == \A i \in DOMAIN payload.items : payload.items[i].quantity > 0

\* a line names an unknown product or more than the source branch holds, a
\* missing stock row counting as 0
BadLine(d, payload) ==
  \E i \in DOMAIN payload.items :
    \/ payload.items[i].product_id \notin Products
    \/ payload.items[i].quantity
         > StockQty(d, payload.from_branch_id, payload.items[i].product_id)

\* C12: create_movement fails and persists nothing when the two branches are the
\* same, the item list is empty, a product is unknown or a line exceeds the
\* source branch's current stock; otherwise it persists one waiting Movement
\* with all the lines of the request, and nothing else.
C12_CreateMovementValidated ==
  \A payload \in MovementPayloads, user \in {User("admin"), User("emp0")} :
    Admitted(payload) =>
      LET r == create_movement(db, payload, user)
      IN  IF \/ payload.from_branch_id = payload.to_branch_id
             \/ payload.items = <<>>
             \/ BadLine(db, payload)
            THEN r.status >= 400 /\ r.db = db
            ELSE /\ Len(r.db.movements) = Len(db.movements) + 1
                 /\ LET movement == r.db.movements[Len(r.db.movements)]
                    IN  /\ movement.status = "waiting"
                        /\ movement.items = payload.items
                        /\ movement.from_branch_id = payload.from_branch_id
                        /\ movement.to_branch_id = payload.to_branch_id
                 /\ r.db = [db EXCEPT !.movements = r.db.movements]
                 /\ SubSeq(r.db.movements, 1, Len(db.movements)) = db.movements

\* a create_movement request was refused, and nothing persisted, after a sale
\* had taken stock from the source branch
C12_Witness ==
  /\ last.op = "create_movement"
  /\ last.status = 400
  /\ db.movements = <<>>
  /\ db.sales # <<>>
  /\ BadLine(db, [from_branch_id |-> StoreBranch, items |-> <<MoveLine(1, 2)>>])

\* C13: create_movement and reject_movement leave every stock quantity as it
\* was; a successful reject_movement sets the status to rejected, stores the
\* given reason and sets processed_by and processed_at.
C13_OnlyAcceptMovesStock ==
  /\ \A payload \in MovementPayloads, user \in {User("admin"), User("emp0")} :
       create_movement(db, payload, user).db.stock = db.stock
  /\ \A m \in MovementIds, reason \in Reasons, user \in Users :
       LET r == reject_movement(db, m, reason, user)
       IN  /\ r.db.stock = db.stock
           /\ r.status = 200 =>
                r.db = [db EXCEPT !.movements[m].status = "rejected",
                                  !.movements[m].reason = reason,
                                  !.movements[m].processed_by_id = user.id,
                                  !.movements[m].processed_at = "set"]

\* a transfer was rejected with a reason, and the stock is where the income left it
C13_Witness ==
  /\ last.op = "reject_movement"
  /\ last.status = 200
  /\ db.movements[last.key].status = "rejected"
  /\ db.movements[last.key].reason = "damaged"
  /\ db.movements[last.key].processed_at = "set"
  /\ db.stock = InitDB.stock

(***************************************************************************)
(* services/returns.py: calculate_return_breakdowns                        *)
(***************************************************************************)
ReturnBreakdown(total, cash, card, debt) ==
  [total |-> total, cash |-> cash, card |-> card, debt |-> debt]

\* lines 40-48: a return with a debt offset is split into the offset and cash
offset_breakdown(total_amount, debt_offset) ==
  LET debt_used == Min(debt_offset, total_amount)
      cash_used == Max(total_amount - debt_used, 0)
  IN  ReturnBreakdown(total_amount, cash_used, 0, debt_used)

\* the fallback of lines 70-72 left out: the uncovered remainder is dropped
uncovered_dropped(card_used, remaining) == card_used

\* lines 70-72: what no pool covers goes to card
uncovered_to_card(card_used, remaining) ==
  IF remaining > 0 THEN card_used + remaining ELSE card_used

\* lines 51-74: a return without one drains the debt, cash and card pools of
\* the sale in that order, the uncovered remainder going to card;
\* r = [breakdown, pools]
pool_breakdown(total_amount, pools) ==
  LET debt_used  == Min(total_amount, pools.debt)
      remaining1 == total_amount - debt_used
      cash_used  == Min(remaining1, pools.cash)
      remaining2 == remaining1 - cash_used
      card_used  == Min(remaining2, pools.card)
      remaining3 == remaining2 - card_used
      card_all   == uncovered_to_card(card_used, remaining3)
  IN  [breakdown |-> ReturnBreakdown(total_amount, cash_used, card_all, debt_used),
       pools |-> [cash |-> pools.cash - cash_used, card |-> pools.card - card_used,
                  debt |-> pools.debt - debt_used]]

RECURSIVE sorted_returns_newest_first(_)
\* the returns of a sale with the latest first
sorted_returns_newest_first(ids) ==
  IF ids = {} THEN <<>>
  ELSE LET first == CHOOSE i \in ids : \A j \in ids : i >= j
       IN  <<first>> \o sorted_returns_newest_first(ids \ {first})

\* line 37: the returns of a sale by created_at, which is the order of the ids
RECURSIVE sorted_returns(_)
sorted_returns(ids) ==
  IF ids = {} THEN <<>>
  ELSE LET first == CHOOSE i \in ids : \A j \in ids : i <= j
       IN  <<first>> \o sorted_returns(ids \ {first})

\* lines 37-74: the loop over the returns of one sale; the result maps the id of
\* a return to its breakdown
RECURSIVE sale_breakdowns(_, _, _, _)
sale_breakdowns(d, entries, pools, breakdowns) ==
  IF entries = <<>> THEN breakdowns
  ELSE
    LET id           == Head(entries)
        entry        == d.returns[id]
        total_amount == SumAmounts(entry.items)
        debt_offset  == entry.debt_offset_amount
        r            == pool_breakdown(total_amount, pools)
    IN  IF debt_offset > 0
          THEN sale_breakdowns(d, Tail(entries), pools,
                               breakdowns @@ (id :> offset_breakdown(total_amount, debt_offset)))
        ELSE sale_breakdowns(d, Tail(entries), r.pools,
                             breakdowns @@ (id :> r.breakdown))

\* lines 22-24: the returns handed over, grouped by sale
returns_by_sale(d, ids, sale_id) == { i \in ids : d.returns[i].sale_id = sale_id }

\* lines 33-35
sale_pools(sale) == [cash |-> sale.paid_cash, card |-> sale.paid_card, debt |-> sale.paid_debt]

\* lines 26-76: the loop over the sales
RECURSIVE breakdowns_of_sales(_, _, _, _)
breakdowns_of_sales(d, ids, sale_ids, breakdowns) ==
  IF sale_ids = {} THEN breakdowns
  ELSE
    LET sale_id == CHOOSE x \in sale_ids : TRUE
        done    == sale_breakdowns(d, sorted_returns(returns_by_sale(d, ids, sale_id)),
                                   sale_pools(d.sales[sale_id]), breakdowns)
    IN  breakdowns_of_sales(d, ids, sale_ids \ {sale_id}, done)

calculate_return_breakdowns(d, ids) ==
  breakdowns_of_sales(d, ids, { d.returns[i].sale_id : i \in ids }, <<>>)

(***************************************************************************)
(* SpecBreakdown: the reports break the returns of a sale down.  The sale  *)
(* is one that create_sale wrote; the rows of the returns table are drawn  *)
(* from the rows the table can hold for that sale, with amounts in         *)
(* hundredths.                                                             *)
(***************************************************************************)
BreakdownSalePayloads ==
  { [client_id |-> 1, items |-> OneLine(1, 2, 1),
     paid_cash |-> m[1], paid_card |-> m[2], paid_debt |-> m[3]] :
    m \in { t \in (0..2) \X (0..2) \X (0..2) : t[1] + t[2] + t[3] = 2 } }

BreakdownSales ==
  { create_sale(InitDB, payload, User("admin")).db : payload \in BreakdownSalePayloads }

ReturnRow(quantity, debt_offset) ==
  [sale_id |-> 1, branch_id |-> StoreBranch, type |-> "by_item", created_by_id |-> "admin",
   apply_to_debt |-> (debt_offset > 0), debt_offset_given |-> (debt_offset > 0),
   debt_offset_amount |-> debt_offset,
   items |-> <<[sale_item_id |-> 1, quantity |-> quantity, amount |-> quantity]>>]

\* a debt offset is at most the total of the return (routes_returns.py)
ReturnRows == { ReturnRow(q[1], q[2]) : q \in { t \in (1..2) \X (0..2) : t[2] <= t[1] } }

ReturnTables == UNION { [1..n -> ReturnRows] : n \in 0..MaxReturns }

InitBreakdown ==
  /\ \E d \in BreakdownSales, rows \in ReturnTables : db = [d EXCEPT !.returns = rows]
  /\ last = NoRequest
  /\ tx = Idle

ReportReq ==
  \E ids \in SUBSET DOMAIN db.returns :
    /\ last' = [op |-> "calculate_return_breakdowns", status |-> 200,
                key |-> calculate_return_breakdowns(db, ids)]
    /\ UNCHANGED <<db, tx>>

NextBreakdown == ReportReq

SpecBreakdown == InitBreakdown /\ [][NextBreakdown]_vars

Reported == last.op = "calculate_return_breakdowns"

\* C14: whatever returns are handed over, every breakdown that
\* calculate_return_breakdowns yields has cash + card + debt equal to total, and
\* total is the sum of the amounts of the return's items: on the branch of a
\* return with a debt offset, on the branch that drains the pools, and when the
\* pools are exhausted and the remainder goes to card.
C14_BreakdownSumsToTotal ==
  \A ids \in SUBSET DOMAIN db.returns :
    LET breakdowns == calculate_return_breakdowns(db, ids)
    IN  /\ DOMAIN breakdowns = ids
        /\ \A id \in ids :
             /\ breakdowns[id].total = SumAmounts(db.returns[id].items)
             /\ breakdowns[id].cash + breakdowns[id].card + breakdowns[id].debt
                  = breakdowns[id].total
             /\ breakdowns[id].cash >= 0 /\ breakdowns[id].card >= 0 /\ breakdowns[id].debt >= 0

\* a report over three returns of a sale paid 1 in cash and 1 in card: the
\* first carries a debt offset, the second drains the pools, the third finds
\* them exhausted
C14_Witness ==
  /\ Reported
  /\ DOMAIN last.key = {1, 2, 3}
  /\ db.sales[1].paid_cash = 1 /\ db.sales[1].paid_card = 1
  /\ db.returns[1].debt_offset_amount = 1
  /\ last.key[1] = ReturnBreakdown(2, 1, 0, 1)
  /\ db.returns[2].debt_offset_amount = 0
  /\ last.key[2] = ReturnBreakdown(2, 1, 1, 0)
  /\ db.returns[3].debt_offset_amount = 0
  /\ last.key[3] = ReturnBreakdown(1, 0, 1, 0)

RECURSIVE SumOver(_, _, _)
SumOver(breakdowns, ids, field) ==
  IF ids = {} THEN 0
  ELSE LET id == CHOOSE i \in ids : TRUE
       IN  breakdowns[id][field] + SumOver(breakdowns, ids \ {id}, field)

RECURSIVE SumTotals(_, _)
SumTotals(d, ids) ==
  IF ids = {} THEN 0
  ELSE LET id == CHOOSE i \in ids : TRUE
       IN  SumAmounts(d.returns[id].items) + SumTotals(d, ids \ {id})

\* the returns of a sale that drain its pools, and what the pools leave uncovered
Pooled(d, sale_id) ==
  { i \in DOMAIN d.returns : d.returns[i].sale_id = sale_id /\ d.returns[i].debt_offset_amount <= 0 }

Uncovered(d, sale_id) ==
  LET sale == d.sales[sale_id]
  IN  Max(SumTotals(d, Pooled(d, sale_id)) - (sale.paid_cash + sale.paid_card + sale.paid_debt), 0)

SaleLine(product_id, quantity, price, discount) ==
  [product_id |-> product_id, quantity |-> quantity, price |-> price, discount |-> discount]

\* SaleItemBase: quantity is an int without a lower bound
SaleItemLists ==
  { <<>>,
    <<SaleLine(1, 1, 1, 0)>>, <<SaleLine(1, 2, 1, 0)>>, <<SaleLine(1, 3, 1, 0)>>,
    <<SaleLine(1, 0 - 1, 1, 0)>>, <<SaleLine(2, 1, 3, 1)>>, <<SaleLine(9, 1, 1, 0)>>,
    <<SaleLine(1, 1, 1, 0), SaleLine(1, 1, 1, 0)>>,
    <<SaleLine(1, 1, 1, 0), SaleLine(1, 2, 1, 0)>> }

RECURSIVE LineTotals(_)
LineTotals(items) ==
  IF items = <<>> THEN 0
  ELSE (Head(items).price - Head(items).discount) * Head(items).quantity + LineTotals(Tail(items))

PaidTotal(payload) == payload.paid_cash + payload.paid_card + payload.paid_debt

\* clients 0 (none) and 1 pay the total in cash, on credit, or half and half;
\* client 2 pays one hundredth too much
SaleFormPayloads ==
  { [client_id |-> c, items |-> items, paid_cash |-> LineTotals(items), paid_card |-> 0,
     paid_debt |-> 0] : c \in {0, 1}, items \in SaleItemLists }
  \cup
  { [client_id |-> c, items |-> items, paid_cash |-> 0, paid_card |-> 0,
     paid_debt |-> LineTotals(items)] : c \in {0, 1}, items \in SaleItemLists }
  \cup
  { [client_id |-> 1, items |-> items, paid_cash |-> 0, paid_card |-> 1,
     paid_debt |-> LineTotals(items) - 1] : items \in SaleItemLists }
  \cup
  { [client_id |-> 2, items |-> items, paid_cash |-> LineTotals(items) + 1, paid_card |-> 0,
     paid_debt |-> 0] : items \in SaleItemLists }

SaleUsers == {User("admin"), User("emp2")}

SaleForm == CreateSaleReq(SaleFormPayloads, SaleUsers)

NextSale == SaleForm

SpecSale == Init /\ [][NextSale]_vars

\* C16: a create_sale answered 201 with paid_debt > 0 and a client adds exactly
\* one Debt, of amount paid_debt and paid 0, tied to the new sale, and raises
\* that client's total_debt by paid_debt; one answered 201 with paid_debt = 0
\* adds no Debt and leaves every total_debt as it was; one with paid_debt > 0
\* and no client is rejected and leaves the database as it was.
C16_CreditSaleBooksDebt ==
  \A payload \in SaleFormPayloads, user \in SaleUsers :
    LET r == create_sale(db, payload, user)
        sale_id == Len(db.sales) + 1
    IN  /\ (payload.paid_debt > 0 /\ payload.client_id = 0) =>
             (r.status = 400 /\ r.db = db)
        /\ (r.status = 201 /\ payload.paid_debt > 0 /\ payload.client_id # 0) =>
             /\ r.db.debts = Append(db.debts, [client_id |-> payload.client_id,
                                               sale_id |-> sale_id,
                                               amount |-> payload.paid_debt, paid |-> 0])
             /\ r.db.clients = [db.clients EXCEPT ![payload.client_id] = @ + payload.paid_debt]
             /\ Len(r.db.sales) = sale_id
        /\ (r.status = 201 /\ payload.paid_debt = 0) =>
             (r.db.debts = db.debts /\ r.db.clients = db.clients)

\* two credit sales to client 1 have been answered 201
C16_Witness ==
  /\ last.op = "create_sale" /\ last.status = 201 /\ last.key = 1
  /\ Len(db.sales) = 2 /\ Len(db.debts) = 2
  /\ db.debts[2].sale_id = 2 /\ db.debts[2].paid = 0
  /\ db.debts[2].amount = db.sales[2].paid_debt
  /\ db.sales[2].paid_debt > 0
  /\ db.clients[1] = db.debts[1].amount + db.debts[2].amount

\* some line asks for more than the stock left when the loop reaches it
RECURSIVE OverAsks(_, _, _)
OverAsks(d, branch_id, items) ==
  IF items = <<>> THEN FALSE
  ELSE LET item == Head(items)
       IN  IF item.product_id \notin Products THEN FALSE
           ELSE IF item.quantity > StockQty(d, branch_id, item.product_id) THEN TRUE
           ELSE OverAsks([d EXCEPT !.stock[<<branch_id, item.product_id>>] = @ - item.quantity],
                         branch_id, Tail(items))

\* C17: a create_sale answered 201 lowers the store branch's stock of every
\* product by exactly the quantity its lines sell; a sale with a line above the
\* stock left when the line is processed is rejected and changes no stock; and
\* after any sequence of sales the stock of a product is what it had at the
\* start less what the persisted sales sold, and never below 0.
C17_SaleLowersStockExactly ==
  /\ \A p \in Products :
       /\ StockQty(db, StoreBranch, p) = InitQty - Sold(db.sales, p, 1)
       /\ StockQty(db, StoreBranch, p) >= 0
  /\ \A payload \in SaleFormPayloads, user \in SaleUsers :
       LET r == create_sale(db, payload, user)
       IN  /\ r.status = 201 =>
                \A p \in Products :
                  StockQty(r.db, StoreBranch, p)
                    = StockQty(db, StoreBranch, p) - LineQty(payload.items, p)
           /\ OverAsks(db, StoreBranch, payload.items) =>
                (r.status >= 400 /\ r.db.stock = db.stock /\ r.db.sales = db.sales)

\* a sale of two lines of the same product has taken the last two units, so
\* that every further line of it asks for too much
C17_Witness ==
  /\ last.op = "create_sale" /\ last.status = 201
  /\ Len(db.sales) = 1 /\ Len(db.sales[1].items) = 2
  /\ StockQty(db, StoreBranch, 1) = InitQty - 2
  /\ OverAsks(db, StoreBranch, <<SaleLine(1, InitQty - 1, 1, 0)>>)

\* C18: a create_sale whose three payments do not add up to the total of its
\* lines fails and leaves the database as it was, so that a sale is persisted
\* only if they do; every persisted sale has total_amount equal to the sum of
\* its payments and to the sum of its lines' totals.
C18_PaymentsMatchTotal ==
  /\ \A payload \in SaleFormPayloads, user \in SaleUsers :
       LET r == create_sale(db, payload, user)
       IN  /\ PaidTotal(payload) # LineTotals(payload.items) => (r.status >= 400 /\ r.db = db)
           /\ r.db # db => PaidTotal(payload) = LineTotals(payload.items)
  /\ \A i \in DOMAIN db.sales :
       /\ db.sales[i].total_amount
            = db.sales[i].paid_cash + db.sales[i].paid_card + db.sales[i].paid_debt
       /\ db.sales[i].total_amount = LineTotals(db.sales[i].items)

\* client 2, who always pays too much, has been refused after a sale paid half
\* by card and half on credit was persisted
C18_Witness ==
  /\ last.op = "create_sale" /\ last.status = 400 /\ last.key = 2
  /\ Len(db.sales) = 1
  /\ db.sales[1].paid_card = 1 /\ db.sales[1].paid_debt = 1 /\ db.sales[1].total_amount = 2

(***************************************************************************)
(* The Django services (warehouse, orders) keep their own database.         *)
(* Quantities are in thousandths (Stock.qty has three decimal places),     *)
(* amounts of money in hundredths.  transaction.async_atomic is an atomic  *)
(* block: what it wrote is undone when an exception leaves it.             *)
(***************************************************************************)
\* core/models.py: DecimalField(decimal_places=3)
Thousand == 1000

\* common/utils.py: Decimal(str(value or 0)).quantize(Decimal("0.01"), ROUND_HALF_UP),
\* on a value in thousandths; the result is in thousandths too
to_decimal(value) ==
  IF value >= 0 THEN ((value + 5) \div 10) * 10
  ELSE 0 - ((((0 - value) + 5) \div 10) * 10)

\* warehouse/services.py
get_or_create_stock(d, branch, product) ==
  IF <<branch, product>> \in DOMAIN d.stock THEN d
  ELSE [d EXCEPT !.stock = @ @@ (<<branch, product>> :> 0)]

apply_stock_change(d, branch, product, qty_delta) ==
  LET d1 == get_or_create_stock(d, branch, product)
  IN  [d1 EXCEPT !.stock[<<branch, product>>] = @ + qty_delta]

\* lines 28-32: the loop over the items; r = [status, db]
RECURSIVE validate_items(_, _, _)
validate_items(d, move, items) ==
  IF items = <<>> THEN Reply("returned", d)
  ELSE
    LET item == Head(items)
        d1 == get_or_create_stock(d, move.from_branch, item.product)
    IN  IF d1.stock[<<move.from_branch, item.product>>] < item.qty
          THEN Reply("ValueError", d1)
        ELSE validate_items(d1, move, Tail(items))

validate_move(d, move) ==
  IF move.status = "posted" THEN Reply("ValueError", d)
  ELSE IF move.status = "canceled" THEN Reply("ValueError", d)
  ELSE IF move.move_type \in {"out", "transfer"} THEN validate_items(d, move, move.items)
  ELSE Reply("returned", d)

\* lines 40-52: the loop over the items inside the atomic block; a branch that
\* is None is 0
RECURSIVE post_items(_, _, _)
post_items(d, move, items) ==
  IF items = <<>> THEN d
  ELSE
    LET item == Head(items)
        qty == item.qty
        either == IF move.to_branch # 0 THEN move.to_branch ELSE move.from_branch
        d1 == IF move.move_type = "in"
                THEN apply_stock_change(d, move.to_branch, item.product, qty)
              ELSE IF move.move_type = "out"
                THEN apply_stock_change(d, move.from_branch, item.product, 0 - qty)
              ELSE IF move.move_type = "transfer"
                THEN apply_stock_change(
                       apply_stock_change(d, move.from_branch, item.product, 0 - qty),
                       move.to_branch, item.product, qty)
              ELSE IF move.move_type \in {"adjust", "return"}
                THEN apply_stock_change(d, either, item.product, qty)
              ELSE d
    IN  post_items(d1, move, Tail(items))

\* validate_move runs before the atomic block: the stock rows it created stay
post_stock_move(d, move_id) ==
  LET move == d.moves[move_id]
      v == validate_move(d, move)
      d1 == post_items(v.db, move, move.items)
  IN  IF v.status # "returned" THEN v
      ELSE Reply("returned", [d1 EXCEPT !.moves[move_id].status = "posted"])

RECURSIVE move_items(_)
move_items(items_data) ==
  IF items_data = <<>> THEN <<>>
  ELSE <<[product |-> Head(items_data).product, qty |-> to_decimal(Head(items_data).qty),
          price |-> to_decimal(Head(items_data).price)]>> \o move_items(Tail(items_data))

create_move_with_items(d, data, user) ==
  LET move == [move_type |-> data.move_type, status |-> "draft",
               from_branch |-> data.from_branch, to_branch |-> data.to_branch,
               created_by |-> user, items |-> move_items(data.items)]
  IN  Reply("returned", [d EXCEPT !.moves = Append(@, move)])

(***************************************************************************)
(* SpecWarehouse: stock moves are created and posted, starting from the    *)
(* database of warehouse/tests.py: 10 units of the product at branch 1,    *)
(* no stock row at branch 2.                                               *)
(***************************************************************************)
\* tests.py line 20: Stock(branch_from, product, qty = 10)
SeedQty == 10 * Thousand

InitWarehouse ==
  /\ db = [stock |-> (<<1, 1>> :> SeedQty), moves |-> <<>>]
  /\ last = NoRequest
  /\ tx = Idle

MoveItemsData ==
  { <<[product |-> 1, qty |-> q, price |-> 10 * Thousand]>> :
    q \in {5 * Thousand, 5 * Thousand + 5, 12 * Thousand} }

MoveData ==
  { [move_type |-> "transfer", from_branch |-> b[1], to_branch |-> b[2], items |-> items] :
    b \in {<<1, 2>>, <<2, 1>>}, items \in MoveItemsData }
  \cup
  { [move_type |-> t[1], from_branch |-> t[2], to_branch |-> t[3], items |-> items] :
    t \in {<<"in", 0, 2>>, <<"out", 1, 0>>, <<"adjust", 1, 0>>},
    items \in MoveItemsData }

CreateMove ==
  /\ Len(db.moves) < MaxMoves
  /\ \E data \in MoveData :
       Served("create_move_with_items", Len(db.moves) + 1,
              create_move_with_items(db, data, "test"))

PostMove ==
  \E move_id \in DOMAIN db.moves :
    Served("post_stock_move", move_id, post_stock_move(db, move_id))

NextWarehouse == CreateMove \/ PostMove

SpecWarehouse == InitWarehouse /\ [][NextWarehouse]_vars

\* the transfer of the test: 5 units from branch 1 to branch 2
TestTransfer ==
  [move_type |-> "transfer", from_branch |-> 1, to_branch |-> 2,
   items |-> <<[product |-> 1, qty |-> 5 * Thousand, price |-> 10 * Thousand]>>]

\* C19: when branch 1 holds 10 units and branch 2 has no stock row, after
\* create_move_with_items creates the transfer of 5 units from branch 1 to
\* branch 2 and post_stock_move posts it, the stock is -5 at branch 1 and 5 at
\* branch 2.
C19_TransferReadBack ==
  (/\ <<1, 1>> \in DOMAIN db.stock /\ db.stock[<<1, 1>>] = SeedQty
   /\ <<2, 1>> \notin DOMAIN db.stock) =>
    LET created == create_move_with_items(db, TestTransfer, "test")
        posted == post_stock_move(created.db, Len(created.db.moves))
    IN  /\ posted.status = "returned"
        /\ posted.db.stock[<<1, 1>>] = 0 - 5 * Thousand
        /\ posted.db.stock[<<2, 1>>] = 5 * Thousand

(***************************************************************************)
(* orders/services.py.  A customer that is None is 0.                      *)
(***************************************************************************)
_compute_payment_status(total, paid) ==
  IF paid = 0 THEN "unpaid"
  ELSE IF paid < total THEN "partial"
  ELSE IF paid = total THEN "paid"
  ELSE IF paid < 0 THEN "debt"
  ELSE "paid"

\* line 40: qty * price, both in thousandths, as an amount in hundredths (exact
\* for the prices in whole units that the requests below carry)
line_total_of(qty, price) == (qty * price) \div (10 * Thousand)

\* lines 36-42: the loop over items_data; the result is <<items, total>>
RECURSIVE order_items(_, _, _)
order_items(items_data, items, total) ==
  IF items_data = <<>> THEN <<items, total>>
  ELSE
    LET item == Head(items_data)
        qty == to_decimal(item.qty)
        price == to_decimal(item.price)
        line_total == line_total_of(qty, price)
    IN  order_items(Tail(items_data),
                    Append(items, [product |-> item.product, qty |-> qty, price |-> price,
                                   line_total |-> line_total]),
                    total + line_total)

create_order(d, user, branch, customer, items_data, discount, manual_extra) ==
  LET r == order_items(items_data, <<>>, 0)
      total == r[2] - discount + manual_extra
      order == [branch |-> branch, customer |-> customer, created_by |-> user,
                status |-> "new", payment_status |-> _compute_payment_status(total, 0),
                discount |-> discount, manual_extra |-> manual_extra,
                total |-> total, paid_amount |-> 0, debt_amount |-> total - 0,
                items |-> r[1]]
  IN  Reply("returned", [d EXCEPT !.orders = Append(@, order)])

add_payment(d, order_id, user, method, amount) ==
  LET order == d.orders[order_id]
      paid_amount == order.paid_amount + amount
      payment == [order |-> order_id, created_by |-> user, method |-> method, amount |-> amount]
  IN  Reply("returned",
            [d EXCEPT !.payments = Append(@, payment),
                      !.orders[order_id].paid_amount = paid_amount,
                      !.orders[order_id].debt_amount = Max(order.total - paid_amount, 0),
                      !.orders[order_id].payment_status =
                          _compute_payment_status(order.total, paid_amount)])

\* the CustomerDebt of an order (the relation is one to one), 0 when it has none
debt_of(d, order_id) ==
  IF \E i \in DOMAIN d.debts : d.debts[i].order = order_id
    THEN CHOOSE i \in DOMAIN d.debts : d.debts[i].order = order_id
  ELSE 0

\* lines 68-78: the debt follows the order's debt_amount and is closed at 0
ensured(debt, debt_amount) ==
  LET debt1 == IF debt.amount # debt_amount THEN [debt EXCEPT !.amount = debt_amount] ELSE debt
  IN  IF debt1.amount <= 0
        THEN [debt1 EXCEPT !.is_closed = TRUE, !.closed_at = "set", !.amount = 0]
      ELSE debt1

ensure_debt(d, order_id) ==
  LET order == d.orders[order_id]
      found == debt_of(d, order_id)
      created == [customer |-> order.customer, order |-> order_id,
                  amount |-> order.debt_amount, is_closed |-> FALSE, closed_at |-> Null]
      d1 == IF found = 0 THEN [d EXCEPT !.debts = Append(@, created)] ELSE d
      debt_id == debt_of(d1, order_id)
  IN  IF order.customer = 0 THEN Reply("ValueError", d)
      ELSE Reply("returned", [d1 EXCEPT !.debts[debt_id] = ensured(@, order.debt_amount)])

\* a payment of the debt booked on the order as well
add_debt_payment_on_order(d, debt_id, user, amount) ==
  LET left == d.debts[debt_id].amount - amount
      payment == [debt |-> debt_id, created_by |-> user, amount |-> amount]
      d1 == [d EXCEPT !.debt_payments = Append(@, payment),
                      !.orders[d.debts[debt_id].order].paid_amount = @ + amount]
  IN  IF left <= 0
        THEN Reply("returned", [d1 EXCEPT !.debts[debt_id].is_closed = TRUE,
                                          !.debts[debt_id].closed_at = "set",
                                          !.debts[debt_id].amount = 0])
      ELSE Reply("returned", [d1 EXCEPT !.debts[debt_id].amount = left])

add_debt_payment(d, debt_id, user, amount) ==
  LET left == d.debts[debt_id].amount - amount
      payment == [debt |-> debt_id, created_by |-> user, amount |-> amount]
      d1 == [d EXCEPT !.debt_payments = Append(@, payment)]
  IN  IF left <= 0
        THEN Reply("returned", [d1 EXCEPT !.debts[debt_id].is_closed = TRUE,
                                          !.debts[debt_id].closed_at = "set",
                                          !.debts[debt_id].amount = 0])
      ELSE Reply("returned", [d1 EXCEPT !.debts[debt_id].amount = left])

(***************************************************************************)
(* SpecOrders: orders are created and paid, their debts ensured and paid,  *)
(* starting from the database of orders/tests.py.                          *)
(***************************************************************************)
InitOrders ==
  /\ db = [orders |-> <<>>, payments |-> <<>>, debts |-> <<>>, debt_payments |-> <<>>]
  /\ last = NoRequest
  /\ tx = Idle

\* one line of a product priced 100, with a quantity of 1 or 1.005
OrderItemsData ==
  { <<[product |-> 1, qty |-> q, price |-> 100 * Thousand]>> : q \in {Thousand, Thousand + 5} }

\* amounts in hundredths: 20, 100, 120
Amounts == {2000, 10000, 12000}

CreateOrder ==
  /\ Len(db.orders) < MaxOrders
  /\ \E customer \in {0, 1}, items_data \in OrderItemsData, discount \in {0} :
       Served("create_order", Len(db.orders) + 1,
              create_order(db, "cashier", 1, customer, items_data, discount, 0))

AddPayment ==
  /\ Len(db.payments) < MaxOrderPayments
  /\ \E order_id \in DOMAIN db.orders, amount \in Amounts :
       Served("add_payment", order_id, add_payment(db, order_id, "cashier", "cash", amount))

EnsureDebt ==
  \E order_id \in DOMAIN db.orders :
    Served("ensure_debt", order_id, ensure_debt(db, order_id))

AddDebtPayment ==
  /\ Len(db.debt_payments) < MaxDebtPayments
  /\ \E debt_id \in DOMAIN db.debts, amount \in Amounts :
       Served("add_debt_payment", debt_id, add_debt_payment(db, debt_id, "cashier", amount))

NextOrders == CreateOrder \/ AddPayment \/ EnsureDebt \/ AddDebtPayment

SpecOrders == InitOrders /\ [][NextOrders]_vars

\* add_debt_payment(debt, a) with a below the debt's amount lowers the amount by
\* exactly a, leaves is_closed as it was, records one DebtPayment of amount a
\* and leaves the orders as they were
PartialDebtPayment ==
  \A debt_id \in DOMAIN db.debts, amount \in Amounts :
    amount < db.debts[debt_id].amount =>
      LET r == add_debt_payment(db, debt_id, "cashier", amount)
      IN  /\ r.status = "returned"
          /\ r.db.debts = [db.debts EXCEPT ![debt_id].amount = @ - amount]
          /\ r.db.debt_payments
               = Append(db.debt_payments,
                        [debt |-> debt_id, created_by |-> "cashier", amount |-> amount])
          /\ r.db.orders = db.orders
          /\ r.db.payments = db.payments

\* the orders with a customer and without a CustomerDebt
Debtless == { o \in DOMAIN db.orders : db.orders[o].customer # 0 /\ debt_of(db, o) = 0 }

\* C20 as stated: ensure_debt creates the order's CustomerDebt with amount =
\* order.total - order.paid_amount, and a partial add_debt_payment lowers the
\* debt by its amount, leaves it open, records the DebtPayment and does not
\* touch the order.
C20_DebtIsTotalLessPaid ==
  /\ \A o \in Debtless :
       LET r == ensure_debt(db, o)
       IN  /\ r.status = "returned"
           /\ Len(r.db.debts) = Len(db.debts) + 1
           /\ r.db.debts[debt_of(r.db, o)].amount = db.orders[o].total - db.orders[o].paid_amount
  /\ PartialDebtPayment

\* C20, amended: ensure_debt creates the order's CustomerDebt with amount =
\* order.total - order.paid_amount when that is positive, and with amount 0 and
\* is_closed true when the order is paid in full or overpaid; the debt belongs
\* to the order's customer and nothing else changes.  The part on
\* add_debt_payment is as stated.
C20_DebtIsUnpaidRest ==
  /\ \A o \in Debtless :
       LET r == ensure_debt(db, o)
           rest == db.orders[o].total - db.orders[o].paid_amount
       IN  /\ r.status = "returned"
           /\ r.db.debts = Append(db.debts,
                                  [customer |-> db.orders[o].customer, order |-> o,
                                   amount |-> Max(rest, 0), is_closed |-> (rest <= 0),
                                   closed_at |-> IF rest <= 0 THEN "set" ELSE Null])
           /\ r.db.orders = db.orders
           /\ r.db.payments = db.payments
  /\ PartialDebtPayment

\* the flow of the test: an order of 100, a payment of 20, the debt of 80
\* ensured, and a debt payment of 20 that leaves 60
C20_Witness ==
  /\ last.op = "add_debt_payment" /\ last.status = "returned"
  /\ Len(db.orders) = 1
  /\ db.orders[1].total = 10000 /\ db.orders[1].paid_amount = 2000
  /\ Len(db.debts) = 1
  /\ db.debts[1].amount = 6000 /\ ~db.debts[1].is_closed
  /\ db.debt_payments = <<[debt |-> 1, created_by |-> "cashier", amount |-> 2000]>>

(***************************************************************************)
(* pay_off_debt, checked in the states of SpecDebt                         *)
(***************************************************************************)
DebtUsers == {User("admin"), User("emp1"), User("emp0")}

\* C21: pay_off_debt with an amount a > 0 for a client whose total_debt is T,
\* when it is answered 201, records one DebtPayment whose amount is min(a, T)
\* if T > 0 and a if T <= 0, and sets the client's total_debt to
\* max(T - applied, 0), which is never negative; an admin's payment without a
\* debt_id for a known client is answered 201.
C21_PaymentApplied ==
  \A payload \in DebtPayloads, user \in DebtUsers :
    LET r == pay_off_debt(db, payload, user)
        T == db.clients[payload.client_id]
        applied == IF T > 0 THEN Min(payload.amount, T) ELSE payload.amount
    IN  /\ (payload.amount > 0 /\ payload.client_id \in Clients /\ user.role = "admin"
            /\ payload.debt_id = 0) => r.status = 201
        /\ r.status = 201 =>
             /\ payload.amount > 0
             /\ r.db.payments = Append(db.payments, [client_id |-> payload.client_id,
                                                     debt_id |-> payload.debt_id,
                                                     amount |-> applied,
                                                     payment_type |-> payload.payment_type])
             /\ r.db.clients = [db.clients EXCEPT ![payload.client_id] = Max(T - applied, 0)]
             /\ r.db.clients[payload.client_id] >= 0
             /\ r.db.clients[payload.client_id] = T - Min(applied, T)

\* the scenario, in units of 40: a client owing 2 on one debt has paid 1
C21_Witness ==
  /\ last.op = "pay_off_debt" /\ last.status = 201
  /\ Len(db.debts) = 1 /\ db.debts[1].client_id = 1
  /\ db.debts[1].amount = 2 /\ db.debts[1].paid = 1
  /\ db.clients[1] = 1
  /\ db.payments = <<[client_id |-> 1, debt_id |-> 0, amount |-> 1, payment_type |-> "cash"]>>

\* what the debts of a client created before debt i still lack
RECURSIVE OwedBefore(_, _, _)
OwedBefore(debts, client_id, i) ==
  IF i <= 1 THEN 0
  ELSE (IF debts[i - 1].client_id = client_id
          THEN Max(debts[i - 1].amount - debts[i - 1].paid, 0) ELSE 0)
       + OwedBefore(debts, client_id, i - 1)

\* the debts after `applied` went to the client's open debts oldest first: each
\* receives min(what is left of applied, its outstanding), a later debt is
\* touched only when every earlier one is paid in full, other clients' debts
\* are not touched
OldestFirst(before, after, client_id, applied) ==
  /\ DOMAIN after = DOMAIN before
  /\ \A i \in DOMAIN before :
       LET left == Max(applied - OwedBefore(before, client_id, i), 0)
           outstanding == Max(before[i].amount - before[i].paid, 0)
       IN  after[i] = IF before[i].client_id = client_id
                        THEN [before[i] EXCEPT !.paid = @ + Min(left, outstanding)]
                      ELSE before[i]
  /\ \A i, j \in DOMAIN before :
       (i < j /\ before[i].client_id = client_id /\ after[j].paid # before[j].paid)
         => after[i].paid >= after[i].amount

\* C22: a pay_off_debt without debt_id that is answered 201, and the walk of
\* the return debt offset over the client's open debts, reduce the debts of the
\* client oldest first: each receives min(remaining, its outstanding) and a
\* later debt changes only after the earlier ones are paid in full.
C22_OldestDebtFirst ==
  /\ \A payload \in DebtPayloads, user \in DebtUsers :
       LET r == pay_off_debt(db, payload, user)
       IN  (r.status = 201 /\ payload.debt_id = 0) =>
             OldestFirst(db.debts, r.db.debts, payload.client_id,
                         r.db.payments[Len(r.db.payments)].amount)
  /\ \A client_id \in Clients, offset_amount \in 1..3 :
       OldestFirst(db.debts,
                   offset_allocate(db.debts, open_debts(db.debts, client_id), offset_amount),
                   client_id, offset_amount)

\* a payment of 2 without debt_id has paid the older debt of 1 in full and 1 of
\* the newer debt of 2
C22_Witness ==
  /\ last.op = "pay_off_debt" /\ last.status = 201 /\ last.key = 0
  /\ Len(db.debts) = 2
  /\ db.debts[1].client_id = 1 /\ db.debts[2].client_id = 1
  /\ db.debts[1].amount = 1 /\ db.debts[1].paid = 1
  /\ db.debts[2].amount = 2 /\ db.debts[2].paid = 1
  /\ db.payments[1].amount = 2

\* C23: in every reachable state every Debt has 0 <= paid <= amount, and
\* neither a payment, targeted or not, nor the walk of a return offset raises a
\* debt's paid above its amount.
C23_PaidWithinAmount ==
  /\ \A i \in DOMAIN db.debts : 0 <= db.debts[i].paid /\ db.debts[i].paid <= db.debts[i].amount
  /\ \A payload \in DebtPayloads, user \in DebtUsers :
       LET r == pay_off_debt(db, payload, user)
       IN  \A i \in DOMAIN r.db.debts :
             0 <= r.db.debts[i].paid /\ r.db.debts[i].paid <= r.db.debts[i].amount
  /\ \A client_id \in Clients, offset_amount \in 1..3 :
       LET after == offset_allocate(db.debts, open_debts(db.debts, client_id), offset_amount)
       IN  \A i \in DOMAIN after : 0 <= after[i].paid /\ after[i].paid <= after[i].amount

\* a payment of 2 aimed at a debt of 1 has been answered 201, and the debt is
\* paid with 1
C23_Witness ==
  /\ last.op = "pay_off_debt" /\ last.status = 201 /\ last.key = 1
  /\ Len(db.debts) = 2
  /\ db.debts[1].amount = 1 /\ db.debts[1].paid = 1
  /\ db.payments[1].amount = 2 /\ db.payments[1].debt_id = 1

\* the debt_id of the request names no debt of the client
ForeignDebt(d, payload) ==
  /\ payload.debt_id # 0
  /\ \/ payload.debt_id \notin DOMAIN d.debts
     \/ d.debts[payload.debt_id].client_id # payload.client_id

\* a payment request that passes the schema and names a known client
WellFormed(payload) == payload.amount > 0 /\ payload.client_id \in Clients

\* a pay_off_debt with a debt_id that is answered 201 changes the paid field of
\* that debt only
TargetedOnly ==
  \A payload \in DebtPayloads, user \in DebtUsers :
    LET r == pay_off_debt(db, payload, user)
    IN  (r.status = 201 /\ payload.debt_id # 0) =>
          /\ DOMAIN r.db.debts = DOMAIN db.debts
          /\ \A i \in DOMAIN db.debts :
               r.db.debts[i] = IF i = payload.debt_id
                                 THEN [db.debts[i] EXCEPT !.paid = r.db.debts[i].paid]
                               ELSE db.debts[i]

IncomeLine(product_id, quantity) == [product_id |-> product_id, quantity |-> quantity]

FirstIncome ==
  [branch_id |-> StoreBranch, created_by_id |-> "admin",
   items |-> <<IncomeLine(1, InitQty), IncomeLine(2, InitQty)>>, present |-> TRUE]

InitStock ==
  /\ db = [k \in DOMAIN InitDB \cup {"incomes", "counterparty_sales"} |->
             IF k = "incomes" THEN <<FirstIncome>>
             ELSE IF k = "counterparty_sales" THEN <<>>
             ELSE InitDB[k]]
  /\ last = NoRequest
  /\ tx = Idle

IncomePayloads ==
  [branch_id : {StoreBranch}, items : {<<IncomeLine(1, 1)>>, <<IncomeLine(9, 1)>>}]

IncomeReq ==
  /\ Len(db.incomes) < MaxIncomes
  /\ \E payload \in IncomePayloads, user \in {User("admin"), User("emp0")} :
       Served("create_income", 0, create_income(db, payload, user))

DeleteIncomeReq ==
  \E income_id \in 1..(MaxIncomes + 1), user \in {User("admin"), User("emp1")} :
    Served("delete_income", income_id, delete_income(db, income_id, user))

WholesalePayloads ==
  [counterparty_id : {0, 9},
   items : {<<>>, <<IncomeLine(1, 0)>>, <<IncomeLine(1, 1)>>, <<IncomeLine(1, 3)>>}]

WholesaleReq ==
  /\ Len(db.counterparty_sales) < MaxCounterpartySales
  /\ \E payload \in WholesalePayloads :
       Served("create_counterparty_sale", 0,
              create_counterparty_sale(db, payload, User("admin")))

StockSalePayloads ==
  { [client_id |-> 0, items |-> OneLine(1, q, 1),
     paid_cash |-> q, paid_card |-> 0, paid_debt |-> 0] : q \in {1, 2} }

StockSale == CreateSaleReq(StockSalePayloads, {User("emp1"), User("emp2")})

StockReturnPayloads ==
  [sale_id : 1..MaxSales, type : {"by_receipt", "by_item"},
   items : {<<ReturnEntry(1, 1)>>},
   apply_to_debt : {FALSE}, debt_offset_given : {FALSE}, debt_offset_amount : {0}]

StockReturn == CreateReturnReq(StockReturnPayloads, {User("admin")})

StockTransferPayloads ==
  [from_branch_id : {StoreBranch}, to_branch_id : {2}, items : {<<MoveLine(1, 1)>>}]

StockTransfer == CreateMovementReq(StockTransferPayloads, {User("admin")})

StockAccept == AcceptMovementReq(1..MaxMovements, {User("admin")})

NextStock ==
  \/ IncomeReq \/ DeleteIncomeReq \/ WholesaleReq
  \/ StockSale \/ StockReturn \/ StockTransfer \/ StockAccept

SpecStock == InitStock /\ [][NextStock]_vars

RECURSIVE ReturnedOf(_, _, _)
\* the quantity of one product among the return items built for a sale
ReturnedOf(sale, items, product_id) ==
  IF items = <<>> THEN 0
  ELSE (IF sale.items[Head(items).sale_item_id].product_id = product_id
          THEN Head(items).quantity ELSE 0)
       + ReturnedOf(sale, Tail(items), product_id)

MaxEarlierReturns == 2

ReceiptLines ==
  { OneLine(1, q, 1) : q \in 1..2 }
    \cup { OneLine(1, q[1], 1) \o OneLine(2, q[2], 1) : q \in (1..2) \X (1..2) }

RECURSIVE LineSum(_)
LineSum(items) ==
  IF items = <<>> THEN 0 ELSE Head(items).quantity * Head(items).price + LineSum(Tail(items))

ReceiptSalePayloads ==
  { [client_id |-> 0, items |-> items,
     paid_cash |-> LineSum(items), paid_card |-> 0, paid_debt |-> 0] : items \in ReceiptLines }

ReceiptSales ==
  { create_sale(InitDB, payload, User("admin")).db : payload \in ReceiptSalePayloads }

\* a by_item return of one line as lines 111-125 and 187 persist it
EarlierReturn(d, sale_item_id, quantity) ==
  LET payload == [sale_id |-> 1, type |-> "by_item",
                  items |-> <<ReturnEntry(sale_item_id, quantity)>>]
      b == build_return_items(d, 1, payload)
      row == [sale_id |-> 1, branch_id |-> d.sales[1].branch_id, type |-> "by_item",
              created_by_id |-> "admin", apply_to_debt |-> FALSE,
              debt_offset_given |-> FALSE, debt_offset_amount |-> 0, items |-> b.items]
  IN  IF by_item_check(d.sales[1], payload.items) = 0 /\ b.status = 0
        THEN [b.db EXCEPT !.returns = Append(@, row)]
      ELSE d

RECURSIVE EarlierReturns(_, _)
\* the databases that up to n earlier returns of a part of a line leave
EarlierReturns(d, n) ==
  IF n = 0 THEN {d}
  ELSE {d} \cup UNION { EarlierReturns(EarlierReturn(d, i, q), n - 1) : i \in 1..2, q \in 1..2 }

InitReceipt ==
  /\ \E d \in ReceiptSales : db \in EarlierReturns(d, MaxEarlierReturns)
  /\ last = NoRequest
  /\ tx = Idle

ReceiptPayloads ==
  [sale_id : {1, 2}, type : {"by_receipt", "by_item"},
   items : {<<>>, <<ReturnEntry(1, 1)>>, <<ReturnEntry(2, 2)>>},
   apply_to_debt : {FALSE}, debt_offset_given : {FALSE}, debt_offset_amount : {0}]

ReceiptReq ==
  \E payload \in ReceiptPayloads, user \in {User("admin"), User("emp1")} :
    /\ db' = create_return(db, payload, user).db
    /\ last' = [op |-> "create_return", status |-> create_return(db, payload, user).status,
                key |-> payload]
    /\ UNCHANGED tx

NextReceipt == ReceiptReq

SpecReceipt == InitReceipt /\ [][NextReceipt]_vars

\* what is left of a line of the sale after the persisted returns
Remaining(d, sale_id, i) == d.sales[sale_id].items[i].quantity - returned_qty(d, sale_id, i)

ByReceipt == [sale_id |-> 1, type |-> "by_receipt", items |-> <<>>,
              apply_to_debt |-> FALSE, debt_offset_given |-> FALSE, debt_offset_amount |-> 0]

C27_DebtOffsetApplied ==
  \A payload \in DebtReturnPayloads :
    (payload.apply_to_debt /\ payload.sale_id \in DOMAIN db.sales) =>
      LET sale == db.sales[payload.sale_id]
          client_id == sale.client_id
          b == build_return_items(db, payload.sale_id, payload)
          r == create_return(db, payload, User("admin"))
          maxOffset == IF client_id = 0 THEN 0
                       ELSE Min(db.clients[client_id], SumAmounts(b.items))
          offset == IF payload.debt_offset_given THEN payload.debt_offset_amount
                    ELSE maxOffset
          return_id == Len(db.returns) + 1
      IN  b.status = 0 =>
            IF client_id = 0 \/ maxOffset <= 0 \/ offset < 0 \/ offset > maxOffset
              THEN r.status = 400 /\ r.db = db
            ELSE /\ r.status = 201
                 /\ Len(r.db.returns) = return_id
                 /\ r.db.returns[return_id].apply_to_debt
                 /\ r.db.returns[return_id].debt_offset_amount = offset
                 /\ r.db.clients[client_id] = db.clients[client_id] - offset
                 /\ offset > 0 =>
                      r.db.payments = Append(db.payments,
                                             [client_id |-> client_id, debt_id |-> 0,
                                              amount |-> offset, payment_type |-> "offset"])

RECURSIVE DrainedBefore(_, _, _)
\* the total of the returns without a debt offset among ids that were created
\* before the return id
DrainedBefore(d, ids, id) ==
  IF ids = {} THEN 0
  ELSE LET j == CHOOSE i \in ids : TRUE
       IN  (IF j < id /\ d.returns[j].debt_offset_amount = 0
              THEN SumAmounts(d.returns[j].items) ELSE 0)
           + DrainedBefore(d, ids \ {j}, id)

\* what is left of a pool after the returns before drained `drained` from the
\* pools, `ahead` being the size of the pools that are drained before this one
LeftOf(pool, ahead, drained) == Max(pool - Max(drained - ahead, 0), 0)

\* C28: the returns of a sale are taken in the order they were created.  A
\* return without a debt offset takes its total from what the earlier such
\* returns left of the sale's pools: first from the debt pool, then from the
\* cash pool, the rest being card; a return with a debt offset gets debt =
\* min(offset, total), cash = total - debt and card = 0 and takes nothing from
\* the pools.  A full return of 100.00 on a sale paid 20.00 cash, 0 card and
\* 80.00 debt gets debt 80.00, cash 20.00 and card 0.
C28_PoolsDrainedInOrder ==
  /\ \A ids \in SUBSET DOMAIN db.returns :
       LET breakdowns == calculate_return_breakdowns(db, ids)
       IN  \A id \in ids :
             LET sale    == db.sales[db.returns[id].sale_id]
                 total   == SumAmounts(db.returns[id].items)
                 offset  == db.returns[id].debt_offset_amount
                 drained == DrainedBefore(db, ids, id)
                 debt    == Min(total, LeftOf(sale.paid_debt, 0, drained))
                 cash    == Min(total - debt, LeftOf(sale.paid_cash, sale.paid_debt, drained))
             IN  breakdowns[id] =
                   IF offset > 0
                     THEN ReturnBreakdown(total, total - Min(offset, total), 0, Min(offset, total))
                   ELSE ReturnBreakdown(total, cash, total - debt - cash, debt)
  /\ pool_breakdown(10000, [cash |-> 2000, card |-> 0, debt |-> 8000]).breakdown
       = ReturnBreakdown(10000, 2000, 0, 8000)

\* a report over three returns of 1 on a sale paid 1 cash and 1 debt: the first
\* has a debt offset, the second still finds the debt pool whole and the third
\* finds it drained and takes cash
C28_Witness ==
  /\ Reported
  /\ DOMAIN last.key = {1, 2, 3}
  /\ db.sales[1].paid_cash = 1 /\ db.sales[1].paid_debt = 1
  /\ db.returns[1].debt_offset_amount = 1
  /\ db.returns[2].debt_offset_amount = 0
  /\ db.returns[3].debt_offset_amount = 0
  /\ last.key[1] = ReturnBreakdown(1, 0, 0, 1)
  /\ last.key[2] = ReturnBreakdown(1, 0, 0, 1)
  /\ last.key[3] = ReturnBreakdown(1, 1, 0, 0)

\* the sum of the Stock rows of a product over the branches
StockSum(d, product_id) == StockQty(d, 1, product_id) + StockQty(d, 2, product_id)

\* C29: in every state that incomes, income deletions, retail sales, wholesale
\* sales, returns and accepted transfers lead to, Product.quantity of every
\* product equals the sum of its Stock quantities over the branches.
C29_ProductIsSumOfStock ==
  \A product_id \in Products : db.product[product_id] = StockSum(db, product_id)

\* C30: in every state that create_order, add_payment, ensure_debt and
\* add_debt_payment lead to, every CustomerDebt has amount >= 0 and is closed
\* exactly when its amount is 0, so that a closed debt never has a positive
\* amount.
C30_ClosedIffSettled ==
  \A i \in DOMAIN db.debts :
    /\ db.debts[i].amount >= 0
    /\ db.debts[i].is_closed <=> (db.debts[i].amount = 0)

====
